---- MODULE Spec2Model ----
(***************************************************************************)
(* A model of the LogiBot manifest dashboard: the column resolver, the data *)
(* cleaner and the mapping suggestions of utils/column_utils.py, the       *)
(* direct question dispatch of tabs/llm_query_tab.py, the LLM context of   *)
(* utils/llm_utils.py, the geocoding batch of utils/geocoding_utils.py,    *)
(* the carrier compliance checks and the session state of app.py.          *)
(*                                                                         *)
(* Text is modelled character by character: a Python str is a tuple of     *)
(* one-character strings, so that lower(), replace(), strip(), title(),    *)
(* equality and the substring test `in` are computed as Python computes    *)
(* them.  Dictionary keys that the code only ever compares for equality    *)
(* (the standard field names) are TLA+ strings.                            *)
(***************************************************************************)
EXTENDS Integers, Sequences, FiniteSets, TLC

(***************************************************************************)
(* Bounds of the model.                                                    *)
(***************************************************************************)
\* longest header row drawn for the column resolver
MaxCols == 3
\* longest list of required fields handed to validate_required_columns
MaxRequired == 2
\* most rows of a table drawn for the data cleaner
MaxRows == 1
\* most columns a manifest drawn for the direct analysis lacks
MaxDropped == 1
\* most pieces a question drawn for the direct analysis is put together from
MaxFragments == 2
\* most entries of the chat history in one session; the entries and the calls
\* of the LLM together are at most one more
MaxHistory == 1

\* the columns of a table whose mapping suggestions are generated
MaxSuggestCols == 4

\* the longest list of carriers saved to the carrier file
MaxCarriers == 2

\* the longest list of delayed shipments rendered as an alert
MaxShipments == 2

(***************************************************************************)
(* Python values.                                                          *)
(***************************************************************************)
\* Python's None where a str is expected (no str has a 4-letter character)
None == <<"None">>

Range(s) == {s[i] : i \in 1..Len(s)}

\* list.index(x): the position of the first element equal to x
IndexOf(s, x) == CHOOSE i \in 1..Len(s) : s[i] = x /\ \A j \in 1..(i - 1) : s[j] # x

UpperToLower ==
  [c \in {"A","B","C","D","E","F","G","H","I","J","K","L","M","N","O","P","Q","R","S","T","U","V","W","X","Y","Z"} |->
    CASE c = "A" -> "a" [] c = "B" -> "b" [] c = "C" -> "c" [] c = "D" -> "d"
      [] c = "E" -> "e" [] c = "F" -> "f" [] c = "G" -> "g" [] c = "H" -> "h"
      [] c = "I" -> "i" [] c = "J" -> "j" [] c = "K" -> "k" [] c = "L" -> "l"
      [] c = "M" -> "m" [] c = "N" -> "n" [] c = "O" -> "o" [] c = "P" -> "p"
      [] c = "Q" -> "q" [] c = "R" -> "r" [] c = "S" -> "s" [] c = "T" -> "t"
      [] c = "U" -> "u" [] c = "V" -> "v" [] c = "W" -> "w" [] c = "X" -> "x"
      [] c = "Y" -> "y" [] c = "Z" -> "z"]

LowerChar(c) == IF c \in DOMAIN UpperToLower THEN UpperToLower[c] ELSE c

\* str.lower()
Lower(s) == [i \in 1..Len(s) |-> LowerChar(s[i])]

\* str.replace(a, b) for one-character a and b
Replace(s, a, b) == [i \in 1..Len(s) |-> IF s[i] = a THEN b ELSE s[i]]

IsCased(c) == c \in DOMAIN UpperToLower \/ c \in {UpperToLower[u] : u \in DOMAIN UpperToLower}

UpperChar(c) ==
  IF \E u \in DOMAIN UpperToLower : UpperToLower[u] = c
  THEN CHOOSE u \in DOMAIN UpperToLower : UpperToLower[u] = c
  ELSE c

\* str.title(): a cased letter is uppercased when the character before it is
\* not a cased letter, lowercased otherwise
Title(s) ==
  [i \in 1..Len(s) |->
     IF i > 1 /\ IsCased(s[i - 1]) THEN LowerChar(s[i]) ELSE UpperChar(s[i])]

RECURSIVE LStrip(_)
LStrip(s) == IF s # <<>> /\ Head(s) = " " THEN LStrip(Tail(s)) ELSE s

RECURSIVE RStrip(_)
RStrip(s) == IF s # <<>> /\ s[Len(s)] = " " THEN RStrip(SubSeq(s, 1, Len(s) - 1)) ELSE s

\* str.strip()
Strip(s) == RStrip(LStrip(s))

(***************************************************************************)
(* pandas values and tables.  A cell is a str, a number (counted in        *)
(* hundredths: 2550 is 25.50), NaN, a Timestamp or NaT.  A table is its    *)
(* header row and, per position of the header, a column with its dtype.    *)
(***************************************************************************)
Str(s) == [t |-> "str", v |-> s]
Num(n) == [t |-> "num", v |-> n]
NaN == [t |-> "nan", v |-> 0]
\* the Timestamp parsed from the date text d
Date(d) == [t |-> "date", v |-> d]
\* the Timestamp n nanoseconds after the epoch
Epoch(n) == [t |-> "epoch", v |-> n]
NaT == [t |-> "nat", v |-> 0]
\* the int64 nanosecond count of the Timestamp Date(d)
NsOf(d) == [t |-> "ns", v |-> d]
\* the int64 that stands for NaT
INaT == [t |-> "inat", v |-> 0]

Column(dtype, values) == [dtype |-> dtype, values |-> values]

Table(columns, data) == [columns |-> columns, data |-> data]

EmptyTable == Table(<<>>, <<>>)

\* the positions of the header that carry the name
Positions(df, name) == {i \in 1..Len(df.columns) : df.columns[i] = name}

MapValues(col, dtype, Op(_)) ==
  Column(dtype, [i \in 1..Len(col.values) |-> Op(col.values[i])])

Digits == {"0", "1", "2", "3", "4", "5", "6", "7", "8", "9"}

DigitValue(c) ==
  CASE c = "0" -> 0 [] c = "1" -> 1 [] c = "2" -> 2 [] c = "3" -> 3 [] c = "4" -> 4
    [] c = "5" -> 5 [] c = "6" -> 6 [] c = "7" -> 7 [] c = "8" -> 8 [] c = "9" -> 9

RECURSIVE DigitsValue(_)
DigitsValue(s) ==
  IF s = <<>> THEN 0 ELSE 10 * DigitsValue(SubSeq(s, 1, Len(s) - 1)) + DigitValue(s[Len(s)])

AllDigits(s) == s # <<>> /\ \A i \in 1..Len(s) : s[i] \in Digits

\* the number a text parses to, in hundredths, or -1 when it is not a number:
\* digits, optionally followed by a point and one or two digits, with
\* surrounding blanks ignored
ParseNumber(text) ==
  LET s == Strip(text)
      dots == {i \in 1..Len(s) : s[i] = "."}
  IN IF AllDigits(s) THEN 100 * DigitsValue(s)
     ELSE IF Cardinality(dots) = 1
     THEN LET d == CHOOSE i \in dots : TRUE
              whole == SubSeq(s, 1, d - 1)
              frac == SubSeq(s, d + 1, Len(s))
          IN IF AllDigits(whole) /\ AllDigits(frac) /\ Len(frac) <= 2
             THEN 100 * DigitsValue(whole)
                  + (IF Len(frac) = 1 THEN 10 ELSE 1) * DigitsValue(frac)
             ELSE -1
     ELSE -1

\* a text of the form YYYY-MM-DD
IsIsoDate(text) ==
  /\ Len(text) = 10
  /\ text[5] = "-" /\ text[8] = "-"
  /\ \A i \in {1, 2, 3, 4, 6, 7, 9, 10} : text[i] \in Digits
  /\ DigitsValue(SubSeq(text, 6, 7)) \in 1..12
  /\ DigitsValue(SubSeq(text, 9, 10)) \in 1..31

\* pd.to_numeric(errors='coerce') on one cell
ToNumericCell(x) ==
  CASE x.t = "str" -> (IF ParseNumber(x.v) >= 0 THEN Num(ParseNumber(x.v)) ELSE NaN)
    [] x.t = "date" -> NsOf(x.v)
    [] x.t = "epoch" -> Num(100 * x.v)
    [] x.t = "nat" -> INaT
    [] OTHER -> x

\* pd.to_numeric(series, errors='coerce'): a numeric column is returned as it
\* is, a datetime column as its int64 nanoseconds, an object column parsed
\* cell by cell (int64 when every cell is a whole number, float64 otherwise)
to_numeric(col) ==
  IF col.dtype \in {"int64", "float64"} THEN col
  ELSE IF col.dtype = "datetime64" THEN MapValues(col, "int64", ToNumericCell)
  ELSE LET parsed == MapValues(col, "float64", ToNumericCell)
           whole == \A i \in 1..Len(parsed.values) :
                      parsed.values[i].t = "num" /\ parsed.values[i].v % 100 = 0
       IN Column(IF whole THEN "int64" ELSE "float64", parsed.values)

\* pd.to_datetime(errors='coerce') on one cell
ToDatetimeCell(x) ==
  CASE x.t = "str" -> (IF IsIsoDate(Strip(x.v)) THEN Date(Strip(x.v)) ELSE NaT)
    [] x.t = "num" -> Epoch(x.v \div 100)
    [] x.t = "ns" -> Date(x.v)
    [] x.t \in {"nan", "inat"} -> NaT
    [] OTHER -> x

\* pd.to_datetime(series, errors='coerce')
to_datetime(col) ==
  IF col.dtype = "datetime64" THEN col ELSE MapValues(col, "datetime64", ToDatetimeCell)

\* series.str.<op>(): NaN stays NaN
StrCell(x, Op(_)) == IF x.t = "str" THEN Str(Op(x.v)) ELSE NaN

(***************************************************************************)
(* utils/column_utils.py: the pattern table and the column resolver.       *)
(***************************************************************************)
\* the keys of STANDARD_COLUMNS in the order the dict lists them
StandardFields ==
  <<"shipment_id", "carrier", "origin", "destination", "weight",
    "status", "date", "delivery_date", "cost", "priority">>

Fields == Range(StandardFields)

\* the table with the variant 'ship date' listed for delivery_date as well
STANDARD_COLUMNS_shared_variant ==
  [shipment_id |-> <<<<"s","h","i","p","m","e","n","t","_","i","d">>, <<"s","h","i","p","m","e","n","t"," ","i","d">>, <<"i","d">>,
                     <<"t","r","a","c","k","i","n","g","_","n","u","m","b","e","r">>, <<"t","r","a","c","k","i","n","g"," ","n","u","m","b","e","r">>>>,
   carrier |-> <<<<"c","a","r","r","i","e","r">>, <<"c","a","r","r","i","e","r","_","n","a","m","e">>, <<"c","a","r","r","i","e","r"," ","n","a","m","e">>,
                 <<"s","h","i","p","p","i","n","g","_","c","o","m","p","a","n","y">>, <<"s","h","i","p","p","i","n","g"," ","c","o","m","p","a","n","y">>>>,
   origin |-> <<<<"o","r","i","g","i","n">>, <<"o","r","i","g","i","n","_","c","i","t","y">>, <<"o","r","i","g","i","n"," ","c","i","t","y">>, <<"f","r","o","m">>,
                <<"p","i","c","k","u","p","_","l","o","c","a","t","i","o","n">>, <<"p","i","c","k","u","p"," ","l","o","c","a","t","i","o","n">>>>,
   destination |-> <<<<"d","e","s","t","i","n","a","t","i","o","n">>, <<"d","e","s","t","i","n","a","t","i","o","n","_","c","i","t","y">>, <<"d","e","s","t","i","n","a","t","i","o","n"," ","c","i","t","y">>,
                     <<"t","o">>, <<"d","e","l","i","v","e","r","y","_","l","o","c","a","t","i","o","n">>, <<"d","e","l","i","v","e","r","y"," ","l","o","c","a","t","i","o","n">>>>,
   weight |-> <<<<"w","e","i","g","h","t">>, <<"w","e","i","g","h","t","_","k","g">>, <<"w","e","i","g","h","t"," ","k","g">>,
                <<"t","o","t","a","l","_","w","e","i","g","h","t">>, <<"t","o","t","a","l"," ","w","e","i","g","h","t">>>>,
   status |-> <<<<"s","t","a","t","u","s">>, <<"s","h","i","p","m","e","n","t","_","s","t","a","t","u","s">>, <<"s","h","i","p","m","e","n","t"," ","s","t","a","t","u","s">>,
                <<"d","e","l","i","v","e","r","y","_","s","t","a","t","u","s">>, <<"d","e","l","i","v","e","r","y"," ","s","t","a","t","u","s">>>>,
   date |-> <<<<"d","a","t","e">>, <<"s","h","i","p","_","d","a","t","e">>, <<"s","h","i","p"," ","d","a","t","e">>, <<"p","i","c","k","u","p","_","d","a","t","e">>,
              <<"p","i","c","k","u","p"," ","d","a","t","e">>, <<"c","r","e","a","t","e","d","_","d","a","t","e">>, <<"c","r","e","a","t","e","d"," ","d","a","t","e">>>>,
   delivery_date |-> <<<<"d","e","l","i","v","e","r","y","_","d","a","t","e">>, <<"d","e","l","i","v","e","r","y"," ","d","a","t","e">>, <<"e","x","p","e","c","t","e","d","_","d","e","l","i","v","e","r","y">>,
                       <<"e","x","p","e","c","t","e","d"," ","d","e","l","i","v","e","r","y">>, <<"e","t","a">>, <<"s","h","i","p"," ","d","a","t","e">>>>,
   cost |-> <<<<"c","o","s","t">>, <<"s","h","i","p","p","i","n","g","_","c","o","s","t">>, <<"s","h","i","p","p","i","n","g"," ","c","o","s","t">>, <<"p","r","i","c","e">>,
              <<"a","m","o","u","n","t">>, <<"t","o","t","a","l","_","c","o","s","t">>, <<"t","o","t","a","l"," ","c","o","s","t">>>>,
   priority |-> <<<<"p","r","i","o","r","i","t","y">>, <<"p","r","i","o","r","i","t","y","_","l","e","v","e","l">>, <<"p","r","i","o","r","i","t","y"," ","l","e","v","e","l">>,
                  <<"u","r","g","e","n","c","y">>, <<"s","e","r","v","i","c","e","_","l","e","v","e","l">>, <<"s","e","r","v","i","c","e"," ","l","e","v","e","l">>>>]

STANDARD_COLUMNS ==
  [shipment_id |-> <<<<"s","h","i","p","m","e","n","t","_","i","d">>, <<"s","h","i","p","m","e","n","t"," ","i","d">>, <<"i","d">>,
                     <<"t","r","a","c","k","i","n","g","_","n","u","m","b","e","r">>, <<"t","r","a","c","k","i","n","g"," ","n","u","m","b","e","r">>>>,
   carrier |-> <<<<"c","a","r","r","i","e","r">>, <<"c","a","r","r","i","e","r","_","n","a","m","e">>, <<"c","a","r","r","i","e","r"," ","n","a","m","e">>,
                 <<"s","h","i","p","p","i","n","g","_","c","o","m","p","a","n","y">>, <<"s","h","i","p","p","i","n","g"," ","c","o","m","p","a","n","y">>>>,
   origin |-> <<<<"o","r","i","g","i","n">>, <<"o","r","i","g","i","n","_","c","i","t","y">>, <<"o","r","i","g","i","n"," ","c","i","t","y">>, <<"f","r","o","m">>,
                <<"p","i","c","k","u","p","_","l","o","c","a","t","i","o","n">>, <<"p","i","c","k","u","p"," ","l","o","c","a","t","i","o","n">>>>,
   destination |-> <<<<"d","e","s","t","i","n","a","t","i","o","n">>, <<"d","e","s","t","i","n","a","t","i","o","n","_","c","i","t","y">>, <<"d","e","s","t","i","n","a","t","i","o","n"," ","c","i","t","y">>,
                     <<"t","o">>, <<"d","e","l","i","v","e","r","y","_","l","o","c","a","t","i","o","n">>, <<"d","e","l","i","v","e","r","y"," ","l","o","c","a","t","i","o","n">>>>,
   weight |-> <<<<"w","e","i","g","h","t">>, <<"w","e","i","g","h","t","_","k","g">>, <<"w","e","i","g","h","t"," ","k","g">>,
                <<"t","o","t","a","l","_","w","e","i","g","h","t">>, <<"t","o","t","a","l"," ","w","e","i","g","h","t">>>>,
   status |-> <<<<"s","t","a","t","u","s">>, <<"s","h","i","p","m","e","n","t","_","s","t","a","t","u","s">>, <<"s","h","i","p","m","e","n","t"," ","s","t","a","t","u","s">>,
                <<"d","e","l","i","v","e","r","y","_","s","t","a","t","u","s">>, <<"d","e","l","i","v","e","r","y"," ","s","t","a","t","u","s">>>>,
   date |-> <<<<"d","a","t","e">>, <<"s","h","i","p","_","d","a","t","e">>, <<"s","h","i","p"," ","d","a","t","e">>, <<"p","i","c","k","u","p","_","d","a","t","e">>,
              <<"p","i","c","k","u","p"," ","d","a","t","e">>, <<"c","r","e","a","t","e","d","_","d","a","t","e">>, <<"c","r","e","a","t","e","d"," ","d","a","t","e">>>>,
   delivery_date |-> <<<<"d","e","l","i","v","e","r","y","_","d","a","t","e">>, <<"d","e","l","i","v","e","r","y"," ","d","a","t","e">>, <<"e","x","p","e","c","t","e","d","_","d","e","l","i","v","e","r","y">>,
                       <<"e","x","p","e","c","t","e","d"," ","d","e","l","i","v","e","r","y">>, <<"e","t","a">>>>,
   cost |-> <<<<"c","o","s","t">>, <<"s","h","i","p","p","i","n","g","_","c","o","s","t">>, <<"s","h","i","p","p","i","n","g"," ","c","o","s","t">>, <<"p","r","i","c","e">>,
              <<"a","m","o","u","n","t">>, <<"t","o","t","a","l","_","c","o","s","t">>, <<"t","o","t","a","l"," ","c","o","s","t">>>>,
   priority |-> <<<<"p","r","i","o","r","i","t","y">>, <<"p","r","i","o","r","i","t","y","_","l","e","v","e","l">>, <<"p","r","i","o","r","i","t","y"," ","l","e","v","e","l">>,
                  <<"u","r","g","e","n","c","y">>, <<"s","e","r","v","i","c","e","_","l","e","v","e","l">>, <<"s","e","r","v","i","c","e"," ","l","e","v","e","l">>>>]

\* normalize_column_names, on the header row: lower(), ' ' -> '_', '-' -> '_'
normalize_column_names(cols) ==
  [i \in 1..Len(cols) |-> Replace(Replace(Lower(cols[i]), " ", "_"), "-", "_")]

\* the position of the last variant that is among the lowercased column names
LastVariant(possible_names, df_columns_lower) ==
  LET hits == {k \in 1..Len(possible_names) : possible_names[k] \in Range(df_columns_lower)}
  IN IF hits = {} THEN 0 ELSE CHOOSE k \in hits : \A h \in hits : h <= k

\* the position of the first variant that is one of the lowercased column
\* names, 0 when there is none (the inner for loop and its break)
FirstVariant(possible_names, df_columns_lower) ==
  LET hits == {k \in 1..Len(possible_names) : possible_names[k] \in Range(df_columns_lower)}
  IN IF hits = {} THEN 0 ELSE CHOOSE k \in hits : \A h \in hits : k <= h

\* detect_column_mapping comparing the names as given, without lower()
detect_column_mapping_case_sensitive(cols) ==
  [standard_col \in Fields |->
     LET possible_names == STANDARD_COLUMNS[standard_col]
         k == FirstVariant(possible_names, cols)
     IN IF k = 0 THEN None ELSE cols[IndexOf(cols, possible_names[k])]]

detect_column_mapping(cols) ==
  LET df_columns_lower == [i \in 1..Len(cols) |-> Lower(cols[i])]
  IN [standard_col \in Fields |->
        LET possible_names == STANDARD_COLUMNS[standard_col]
            k == FirstVariant(possible_names, df_columns_lower)
        IN IF k = 0 THEN None
           ELSE cols[IndexOf(df_columns_lower, possible_names[k])]]

\* dict.get(key) of a mapping: None for a key the dict does not hold
Get(mapping, key) == IF key \in DOMAIN mapping THEN mapping[key] ELSE None

\* the loop of validate_required_columns inserting at the front of the list
RECURSIVE MissingLoopFront(_, _, _)
MissingLoopFront(mapping, required, missing_columns) ==
  IF required = <<>> THEN missing_columns
  ELSE MissingLoopFront(mapping, Tail(required),
                        IF Get(mapping, Head(required)) = None
                        THEN <<Head(required)>> \o missing_columns
                        ELSE missing_columns)

\* the loop of validate_required_columns over the required fields
RECURSIVE MissingLoop(_, _, _)
MissingLoop(mapping, required, missing_columns) ==
  IF required = <<>> THEN missing_columns
  ELSE MissingLoop(mapping, Tail(required),
                   IF Get(mapping, Head(required)) = None
                   THEN Append(missing_columns, Head(required))
                   ELSE missing_columns)

DefaultRequired == <<"carrier", "origin", "destination">>

\* validate_required_columns(df, required_columns)
validate_required_columns(cols, required_columns) ==
  LET column_mapping == detect_column_mapping(cols)
      missing_columns == MissingLoop(column_mapping, required_columns, <<>>)
  IN [is_valid |-> Len(missing_columns) = 0, missing |-> missing_columns]

\* ColumnMapper.has_column
has_column(mapping, standard_name) == Get(mapping, standard_name) # None

\* ColumnMapper.validate_required_columns(required), on self.mapping
ColumnMapper_validate_required_columns(mapping, required) ==
  LET missing == SelectSeq(required, LAMBDA col : ~has_column(mapping, col))
  IN [is_valid |-> Len(missing) = 0, missing |-> missing]

\* the name of a standard field as the text a column is renamed to
FieldText(f) ==
  CASE f = "shipment_id" -> <<"s","h","i","p","m","e","n","t","_","i","d">> [] f = "carrier" -> <<"c","a","r","r","i","e","r">>
    [] f = "origin" -> <<"o","r","i","g","i","n">> [] f = "destination" -> <<"d","e","s","t","i","n","a","t","i","o","n">>
    [] f = "weight" -> <<"w","e","i","g","h","t">> [] f = "status" -> <<"s","t","a","t","u","s">>
    [] f = "date" -> <<"d","a","t","e">> [] f = "delivery_date" -> <<"d","e","l","i","v","e","r","y","_","d","a","t","e">>
    [] f = "cost" -> <<"c","o","s","t">> [] f = "priority" -> <<"p","r","i","o","r","i","t","y">>

\* the keys of a mapping in the order the dict holds them: a mapping is built
\* field by field in the order of STANDARD_COLUMNS
Keys(mapping) == SelectSeq(StandardFields, LAMBDA f : f \in DOMAIN mapping)

\* rename_dict = {v: k for k, v in mapping.items() if v in df.columns}: the
\* last field that names a column is the one the column is renamed to
RenameTarget(df, mapping, name) ==
  LET ks == SelectSeq(Keys(mapping), LAMBDA k : mapping[k] = name)
  IN IF ks = <<>> \/ Positions(df, name) = {} THEN name ELSE FieldText(ks[Len(ks)])

\* apply_column_mapping(df, mapping): df.rename(columns=rename_dict)
apply_column_mapping(df, mapping) ==
  Table([i \in 1..Len(df.columns) |-> RenameTarget(df, mapping, df.columns[i])], df.data)

\* the outcome of a call: the table it returns, or the exception it raises
Returned(df) == [ok |-> TRUE, df |-> df, error |-> "none"]
Raised(error) == [ok |-> FALSE, df |-> EmptyTable, error |-> error]

\* the truth value of column_mapping.get(field): None and '' are false
Truthy(name) == name # None /\ name # <<>>

SetColumn(df, i, col) == Table(df.columns, [df.data EXCEPT ![i] = col])

\* df[name] = df[name].str.strip().str.<case>(): KeyError when no column has
\* the name, AttributeError when df[name] is not a Series of text (several
\* columns carry the name, or the column's dtype is not object)
StrStep(df, name, Case(_)) ==
  LET at == Positions(df, name)
  IN IF at = {} THEN Raised("KeyError")
     ELSE IF Cardinality(at) > 1 THEN Raised("AttributeError")
     ELSE LET i == CHOOSE j \in at : TRUE
              strip(x) == StrCell(x, Strip)
              case(x) == StrCell(x, Case)
          IN IF df.data[i].dtype # "object" THEN Raised("AttributeError")
             ELSE Returned(SetColumn(df, i,
                    MapValues(MapValues(df.data[i], "object", strip), "object", case)))

\* df[name] = pd.to_numeric(df[name]) without errors='coerce': a cell that is
\* not a number ends the call
NumStepRaising(df, name) ==
  LET at == Positions(df, name)
  IN IF at = {} THEN Raised("KeyError")
     ELSE IF Cardinality(at) > 1 THEN Raised("TypeError")
     ELSE LET i == CHOOSE j \in at : TRUE
              col == to_numeric(df.data[i])
          IN IF \E r \in 1..Len(col.values) :
                  df.data[i].values[r].t = "str" /\ col.values[r].t = "nan"
             THEN Raised("ValueError")
             ELSE Returned(SetColumn(df, i, col))

\* df[name] = pd.to_numeric(df[name], errors='coerce')
NumStep(df, name) ==
  LET at == Positions(df, name)
  IN IF at = {} THEN Raised("KeyError")
     ELSE IF Cardinality(at) > 1 THEN Raised("TypeError")
     ELSE LET i == CHOOSE j \in at : TRUE
          IN Returned(SetColumn(df, i, to_numeric(df.data[i])))

\* df[name] = pd.to_datetime(df[name], errors='coerce')
DateStep(df, name) ==
  LET at == Positions(df, name)
  IN IF at = {} THEN Raised("KeyError")
     ELSE IF Cardinality(at) > 1 THEN Raised("ValueError")
     ELSE LET i == CHOOSE j \in at : TRUE
          IN Returned(SetColumn(df, i, to_datetime(df.data[i])))

\* the fields clean_column_data treats, in the order it treats them
CleanOrder ==
  <<"carrier", "status", "origin", "destination", "weight", "cost", "date", "delivery_date">>

\* the step of clean_column_data for one field
CleanStep(df, field, name) ==
  IF field \in {"carrier", "origin", "destination"} THEN StrStep(df, name, Title)
  ELSE IF field = "status" THEN StrStep(df, name, Lower)
  ELSE IF field \in {"weight", "cost"} THEN NumStep(df, name)
  ELSE DateStep(df, name)

\* the steps of clean_column_data from the n-th field on; the first exception
\* ends the call
RECURSIVE CleanFrom(_, _, _)
CleanFrom(df, column_mapping, n) ==
  IF n > Len(CleanOrder) THEN Returned(df)
  ELSE LET field == CleanOrder[n]
           name == Get(column_mapping, field)
       IN IF ~Truthy(name) THEN CleanFrom(df, column_mapping, n + 1)
          ELSE LET step == CleanStep(df, field, name)
               IN IF step.ok THEN CleanFrom(step.df, column_mapping, n + 1) ELSE step

\* clean_column_data(df, column_mapping)
clean_column_data(df, column_mapping) == CleanFrom(df, column_mapping, 1)

\* clean_column_data(df): the mapping is detect_column_mapping(df)
clean_column_data_default(df) == CleanFrom(df, detect_column_mapping(df.columns), 1)

(***************************************************************************)
(* tabs/llm_query_tab.py: the direct analysis of a question.               *)
(***************************************************************************)
\* Python's `sub in s` on two texts
Contains(s, sub) ==
  \E i \in 0..(Len(s) - Len(sub)) : SubSeq(s, i + 1, i + Len(sub)) = sub

\* any(phrase in question_lower for phrase in phrases)
AnyPhrase(question_lower, phrases) ==
  \E k \in 1..Len(phrases) : Contains(question_lower, phrases[k])

status_patterns ==
  <<<<"s","t","a","t","u","s">>, <<"s","h","i","p","m","e","n","t","_","s","t","a","t","u","s">>, <<"d","e","l","i","v","e","r","y","_","s","t","a","t","u","s">>, <<"s","h","i","p","_","s","t","a","t","u","s">>>>
carrier_patterns ==
  <<<<"c","a","r","r","i","e","r">>, <<"c","a","r","r","i","e","r","_","n","a","m","e">>, <<"s","h","i","p","p","i","n","g","_","c","o","m","p","a","n","y">>, <<"s","h","i","p","p","e","r">>>>
cost_patterns ==
  <<<<"c","o","s","t">>, <<"p","r","i","c","e">>, <<"a","m","o","u","n","t">>, <<"s","h","i","p","p","i","n","g","_","c","o","s","t">>, <<"t","o","t","a","l","_","c","o","s","t">>>>
origin_patterns ==
  <<<<"o","r","i","g","i","n">>, <<"f","r","o","m">>, <<"s","o","u","r","c","e">>, <<"p","i","c","k","u","p">>, <<"o","r","i","g","i","n","_","c","i","t","y">>>>
destination_patterns ==
  <<<<"d","e","s","t","i","n","a","t","i","o","n">>, <<"t","o">>, <<"d","e","s","t">>, <<"d","e","l","i","v","e","r","y">>, <<"d","e","s","t","i","n","a","t","i","o","n","_","c","i","t","y">>>>
shipment_id_patterns ==
  <<<<"s","h","i","p","m","e","n","t","_","i","d">>, <<"s","h","i","p","m","e","n","t","i","d">>, <<"i","d">>, <<"s","h","i","p","m","e","n","t"," ","i","d">>, <<"t","r","a","c","k","i","n","g">>, <<"r","e","f","e","r","e","n","c","e">>>>
weight_patterns ==
  <<<<"w","e","i","g","h","t">>, <<"t","o","t","a","l","_","w","e","i","g","h","t">>, <<"g","r","o","s","s","_","w","e","i","g","h","t">>, <<"n","e","t","_","w","e","i","g","h","t">>>>
priority_patterns ==
  <<<<"p","r","i","o","r","i","t","y">>, <<"p","r","i","o","r","i","t","y","_","l","e","v","e","l">>, <<"u","r","g","e","n","c","y">>, <<"s","e","r","v","i","c","e","_","l","e","v","e","l">>>>
delivery_date_patterns ==
  <<<<"d","e","l","i","v","e","r","y","_","d","a","t","e">>, <<"d","e","l","i","v","e","r","y"," ","d","a","t","e">>, <<"e","x","p","e","c","t","e","d","_","a","r","r","i","v","a","l">>, <<"e","x","p","e","c","t","e","d"," ","a","r","r","i","v","a","l">>,
    <<"a","r","r","i","v","a","l","_","d","a","t","e">>>>

total_phrases == <<<<"t","o","t","a","l"," ","n","u","m","b","e","r">>, <<"h","o","w"," ","m","a","n","y"," ","s","h","i","p","m","e","n","t","s">>, <<"t","o","t","a","l"," ","s","h","i","p","m","e","n","t","s">>>>
carrier_phrases == <<<<"c","a","r","r","i","e","r"," ","h","a","s"," ","m","o","s","t">>, <<"c","a","r","r","i","e","r"," ","w","i","t","h"," ","m","o","s","t">>, <<"t","o","p"," ","c","a","r","r","i","e","r">>>>
status_phrases ==
  <<<<"s","t","a","t","u","s"," ","d","i","s","t","r","i","b","u","t","i","o","n">>, <<"b","r","e","a","k","d","o","w","n">>, <<"s","t","a","t","u","s"," ","b","r","e","a","k","d","o","w","n">>,
    <<"d","i","s","t","r","i","b","u","t","i","o","n"," ","o","f"," ","s","h","i","p","m","e","n","t"," ","s","t","a","t","u","s","e","s">>, <<"d","i","s","t","r","i","b","u","t","i","o","n"," ","o","f"," ","s","t","a","t","u","s">>,
    <<"w","h","a","t"," ","i","s"," ","t","h","e"," ","d","i","s","t","r","i","b","u","t","i","o","n">>, <<"s","h","i","p","m","e","n","t"," ","s","t","a","t","u","s","e","s">>>>
cost_phrases ==
  <<<<"a","v","e","r","a","g","e"," ","c","o","s","t">>, <<"t","o","t","a","l"," ","c","o","s","t">>, <<"c","o","s","t"," ","a","n","a","l","y","s","i","s">>, <<"s","h","i","p","p","i","n","g"," ","c","o","s","t">>,
    <<"a","v","e","r","a","g","e"," ","s","h","i","p","p","i","n","g"," ","c","o","s","t">>, <<"w","h","a","t"," ","i","s"," ","t","h","e"," ","a","v","e","r","a","g","e">>>>
origin_phrases == <<<<"o","r","i","g","i","n","s">>, <<"o","r","i","g","i","n">>, <<"o","u","t","g","o","i","n","g">>>>
destination_phrases == <<<<"d","e","s","t","i","n","a","t","i","o","n">>, <<"p","o","p","u","l","a","r"," ","d","e","s","t","i","n","a","t","i","o","n">>>>
weight_phrases == <<<<"w","e","i","g","h","t">>>>
priority_phrases ==
  <<<<"p","r","i","o","r","i","t","y">>, <<"h","i","g","h"," ","p","r","i","o","r","i","t","y">>, <<"h","i","g","h","-","p","r","i","o","r","i","t","y">>, <<"a","r","e"," ","t","h","e","r","e"," ","a","n","y"," ","h","i","g","h">>>>
today_phrases ==
  <<<<"d","e","l","i","v","e","r","y"," ","t","o","d","a","y">>, <<"s","c","h","e","d","u","l","e","d"," ","f","o","r"," ","d","e","l","i","v","e","r","y"," ","t","o","d","a","y">>, <<"d","e","l","i","v","e","r","i","n","g"," ","t","o","d","a","y">>,
    <<"s","c","h","e","d","u","l","e","d"," ","t","o","d","a","y">>, <<"t","o","d","a","y"," ","d","e","l","i","v","e","r","y">>>>

\* find_column_case_insensitive(df, target_names): the dict of lowercased
\* names keeps, of two columns with the same lowercased name, the later one
find_column_case_insensitive(df, target_names) ==
  LET lowered == [i \in 1..Len(df.columns) |-> Lower(df.columns[i])]
      k == FirstVariant([j \in 1..Len(target_names) |-> Lower(target_names[j])], lowered)
  IN IF k = 0 THEN None
     ELSE LET at == {i \in 1..Len(lowered) : lowered[i] = Lower(target_names[k])}
          IN df.columns[CHOOSE i \in at : \A j \in at : j <= i]

IsNull(x) == x.t \in {"nan", "nat"}

\* df[name]: the Series of the one column that carries the name, or the
\* DataFrame of all the columns that carry it (its cells are then rows, null
\* when one of their cells is)
Selection(df, name) ==
  LET at == Positions(df, name)
  IN IF Cardinality(at) = 1
     THEN LET i == CHOOSE j \in at : TRUE
          IN [frame |-> FALSE, dtype |-> df.data[i].dtype, values |-> df.data[i].values]
     ELSE LET order == SelectSeq([i \in 1..Len(df.columns) |-> i], LAMBDA i : i \in at)
              rows == Len(df.data[order[1]].values)
          IN [frame |-> TRUE, dtype |-> "frame",
              values |-> [r \in 1..rows |->
                 IF \E c \in 1..Len(order) : IsNull(df.data[order[c]].values[r])
                 THEN NaN
                 ELSE [t |-> "row", v |-> [c \in 1..Len(order) |-> df.data[order[c]].values[r]]]]]

\* get_column_data(df, column_patterns): found is FALSE for (None, None)
get_column_data(df, column_patterns) ==
  LET col_name == find_column_case_insensitive(df, column_patterns)
  IN IF Truthy(col_name)
     THEN [found |-> TRUE, name |-> col_name, data |-> Selection(df, col_name)]
     ELSE [found |-> FALSE, name |-> None,
           data |-> [frame |-> FALSE, dtype |-> "none", values |-> <<>>]]

\* len(df)
NumRows(df) == IF df.data = <<>> THEN 0 ELSE Len(df.data[1].values)

\* the .str accessor exists on a Series of dtype object only
HasStr(data) == ~data.frame /\ data.dtype = "object"

\* pd.api.types.is_numeric_dtype
is_numeric_dtype(data) == data.dtype \in {"int64", "float64"}

\* series.str.lower().str.contains(sub, na=False), as the set of row positions
ContainsMask(data, sub) ==
  {r \in 1..Len(data.values) :
     data.values[r].t = "str" /\ Contains(Lower(data.values[r].v), sub)}

\* series[mask].tolist()
Masked(data, mask) ==
  LET rows == SelectSeq([r \in 1..Len(data.values) |-> r], LAMBDA r : r \in mask)
  IN [k \in 1..Len(rows) |-> data.values[rows[k]]]

\* the distinct non-null values of a selection in the order they first appear
Distinct(data) ==
  LET firsts == SelectSeq([r \in 1..Len(data.values) |-> r],
                  LAMBDA r : /\ ~IsNull(data.values[r])
                             /\ \A q \in 1..(r - 1) : data.values[q] # data.values[r])
  IN [k \in 1..Len(firsts) |-> data.values[firsts[k]]]

CountOf(data, x) == Cardinality({r \in 1..Len(data.values) : data.values[r] = x})

\* the percentage count / total * 100 in tenths, rounded to the nearest tenth
Percentage(count, total) == (2000 * count + total) \div (2 * total)

\* series.value_counts(): value and count of every distinct non-null value,
\* most frequent first, values of equal count in the order they first appear;
\* each entry carries its percentage of the total number of rows
value_counts(data, total) ==
  LET vals == Distinct(data)
      n == Len(vals)
      \* the position of the k-th distinct value in the sorted order
      rank(k) == 1 + Cardinality({j \in 1..n :
                   \/ CountOf(data, vals[j]) > CountOf(data, vals[k])
                   \/ CountOf(data, vals[j]) = CountOf(data, vals[k]) /\ j < k})
  IN [p \in 1..n |->
        LET k == CHOOSE j \in 1..n : rank(j) = p
        IN [value |-> vals[k], count |-> CountOf(data, vals[k]),
            percentage |-> Percentage(CountOf(data, vals[k]), total)]]

\* ', '.join(df.columns)
RECURSIVE JoinNames(_)
JoinNames(names) ==
  IF names = <<>> THEN <<>>
  ELSE IF Len(names) = 1 THEN names[1]
  ELSE names[1] \o <<","," ">> \o JoinNames(Tail(names))

\* the outcomes of analyze_question_directly: an answer of one handler, the
\* diagnostic text of a handler whose column is missing, None, or an exception
Answer(handler, detail) ==
  [kind |-> "answer", handler |-> handler, text |-> <<>>, detail |-> detail]
\* the diagnostic listing only the first column of the table
DiagnosticFirstColumn(handler, text, df) ==
  [kind |-> "diagnostic", handler |-> handler,
   text |-> text \o <<"A","v","a","i","l","a","b","l","e"," ","c","o","l","u","m","n","s",":"," ">> \o JoinNames(SubSeq(df.columns, 1, 1)),
   detail |-> <<>>]

Diagnostic(handler, text, df) ==
  [kind |-> "diagnostic", handler |-> handler,
   text |-> text \o <<"A","v","a","i","l","a","b","l","e"," ","c","o","l","u","m","n","s",":"," ">> \o JoinNames(df.columns),
   detail |-> <<>>]
Absent == [kind |-> "none", handler |-> "none", text |-> <<>>, detail |-> <<>>]
Exception(handler, error) ==
  [kind |-> "exception", handler |-> handler, text |-> <<>>, detail |-> error]

\* today's date in the three formats the delivery-today handler looks for,
\* from the ISO text YYYY-MM-DD
TodayFormats(today) ==
  LET y == SubSeq(today, 1, 4)
      m == SubSeq(today, 6, 7)
      d == SubSeq(today, 9, 10)
  IN {today, m \o <<"/">> \o d \o <<"/">> \o y, d \o <<"/">> \o m \o <<"/">> \o y}

RECURSIVE NatText(_)
\* str(n) of a natural number
NatText(n) ==
  IF n < 10 THEN <<CHOOSE c \in Digits : DigitValue(c) = n>>
  ELSE NatText(n \div 10) \o <<CHOOSE c \in Digits : DigitValue(c) = n % 10>>

\* str(x) of a float counted in hundredths: 2550 is '25.5', 1200 is '12.0'
FloatText(n) ==
  NatText(n \div 100) \o <<".">>
    \o (IF n % 10 = 0 THEN NatText((n % 100) \div 10)
        ELSE NatText((n % 100) \div 10) \o NatText(n % 10))

\* series.astype(str) on one cell of a column of the given dtype; a Timestamp
\* that was made from a number lies in 1970
AsText(x, dtype) ==
  CASE x.t = "str" -> x.v
    [] x.t = "date" -> x.v
    [] x.t = "nan" -> <<"n","a","n">>
    [] x.t = "nat" -> <<"N","a","T">>
    [] x.t = "num" -> (IF dtype = "int64" THEN NatText(x.v \div 100) ELSE FloatText(x.v))
    [] x.t = "epoch" -> <<"1","9","7","0","-","0","1","-","0","1"," ","0","0",":","0","0",":","0","0",".">> \o NatText(x.v)
    [] OTHER -> <<"-","9","2","2","3","3","7","2","0","3","6","8","5","4","7","7","5","8","0","8">>

\* the rows whose delivery date, as text, holds today's date in one of the
\* three formats or the word today
TodayMask(data, today) ==
  {r \in 1..Len(data.values) :
     LET text == AsText(data.values[r], data.dtype)
     IN \/ \E f \in TodayFormats(today) : Contains(text, f)
        \/ Contains(Lower(text), <<"t","o","d","a","y">>)}

\* the delayed / pending branch of the total handler
DelayedPending(df) ==
  LET status == get_column_data(df, status_patterns)
      ids == get_column_data(df, shipment_id_patterns)
  IN IF ~status.found THEN Diagnostic("total", <<"S","t","a","t","u","s"," ","c","o","l","u","m","n"," ","n","o","t"," ","f","o","u","n","d","."," ">>, df)
     ELSE IF ~HasStr(status.data) THEN Exception("total", "AttributeError")
     ELSE LET delayed_mask == ContainsMask(status.data, <<"d","e","l","a","y">>)
              pending_mask == ContainsMask(status.data, <<"p","e","n","d","i","n","g">>)
          IN Answer("total",
               [delayed_count |-> Cardinality(delayed_mask),
                delayed_ids |-> IF delayed_mask # {} /\ ids.found
                                THEN Masked(ids.data, delayed_mask) ELSE <<>>,
                pending_count |-> Cardinality(pending_mask),
                pending_ids |-> IF pending_mask # {} /\ ids.found
                                THEN Masked(ids.data, pending_mask) ELSE <<>>,
                total |-> NumRows(df),
                breakdown |-> value_counts(status.data, NumRows(df))])

\* a handler that reports the most frequent value and the full breakdown of a
\* column: counts.index[0] raises IndexError when the column has no value
LeaderHandler(df, handler, patterns, missing_text) ==
  LET col == get_column_data(df, patterns)
  IN IF ~col.found THEN Diagnostic(handler, missing_text, df)
     ELSE LET counts == value_counts(col.data, NumRows(df))
          IN IF counts = <<>> THEN Exception(handler, "IndexError")
             ELSE Answer(handler, [top |-> counts[1], breakdown |-> counts])

\* the status handler taking the percentages of the rows that have a status
StatusHandlerOfValues(df) ==
  LET status == get_column_data(df, status_patterns)
  IN IF ~status.found THEN Diagnostic("status", <<"S","t","a","t","u","s"," ","c","o","l","u","m","n"," ","n","o","t"," ","f","o","u","n","d","."," ">>, df)
     ELSE Answer("status",
            [breakdown |-> value_counts(status.data,
                             Cardinality({r \in DOMAIN status.data.values :
                                            ~IsNull(status.data.values[r])})),
             total |-> NumRows(df)])

StatusHandler(df) ==
  LET status == get_column_data(df, status_patterns)
  IN IF ~status.found THEN Diagnostic("status", <<"S","t","a","t","u","s"," ","c","o","l","u","m","n"," ","n","o","t"," ","f","o","u","n","d","."," ">>, df)
     ELSE Answer("status", [breakdown |-> value_counts(status.data, NumRows(df)),
                            total |-> NumRows(df)])

\* the non-null numbers of a numeric column
Numbers(data) ==
  LET rows == SelectSeq([r \in 1..Len(data.values) |-> r],
                LAMBDA r : data.values[r].t = "num")
  IN [k \in 1..Len(rows) |-> data.values[rows[k]].v]

RECURSIVE SumSeq(_)
SumSeq(ns) == IF ns = <<>> THEN 0 ELSE Head(ns) + SumSeq(Tail(ns))

\* a quotient rounded to the nearest unit
RoundDiv(a, b) == (2 * a + b) \div (2 * b)

Min(ns) == CHOOSE x \in Range(ns) : \A y \in Range(ns) : x <= y
Max(ns) == CHOOSE x \in Range(ns) : \A y \in Range(ns) : x >= y

\* sum, mean, min and max of a numeric column skip its nulls; of a column
\* without any number the sum is 0 and the others are NaN
Statistics(data) ==
  LET ns == Numbers(data)
  IN IF ns = <<>>
     THEN [sum |-> Num(0), mean |-> NaN, min |-> NaN, max |-> NaN]
     ELSE [sum |-> Num(SumSeq(ns)), mean |-> Num(RoundDiv(SumSeq(ns), Len(ns))),
           min |-> Num(Min(ns)), max |-> Num(Max(ns))]

\* the cost handler counting the shipments that have a cost
CostHandlerCountingCosts(df) ==
  LET cost == get_column_data(df, cost_patterns)
  IN IF cost.found /\ is_numeric_dtype(cost.data)
     THEN LET st == Statistics(cost.data)
          IN Answer("cost", [total |-> st.sum, average |-> st.mean, min |-> st.min,
                             max |-> st.max, count |-> Len(Numbers(cost.data))])
     ELSE Diagnostic("cost", <<"C","o","s","t"," ","c","o","l","u","m","n"," ","n","o","t"," ","f","o","u","n","d"," ","o","r"," ","n","o","t"," ","n","u","m","e","r","i","c","."," ">>, df)

CostHandler(df) ==
  LET cost == get_column_data(df, cost_patterns)
  IN IF cost.found /\ is_numeric_dtype(cost.data)
     THEN LET st == Statistics(cost.data)
          IN Answer("cost", [total |-> st.sum, average |-> st.mean, min |-> st.min,
                             max |-> st.max, count |-> NumRows(df)])
     ELSE Diagnostic("cost", <<"C","o","s","t"," ","c","o","l","u","m","n"," ","n","o","t"," ","f","o","u","n","d"," ","o","r"," ","n","o","t"," ","n","u","m","e","r","i","c","."," ">>, df)

WeightHandler(df) ==
  LET weight == get_column_data(df, weight_patterns)
  IN IF weight.found /\ is_numeric_dtype(weight.data)
     THEN LET st == Statistics(weight.data)
          IN Answer("weight", [total |-> st.sum, average |-> st.mean])
     ELSE Diagnostic("weight", <<"W","e","i","g","h","t"," ","c","o","l","u","m","n"," ","n","o","t"," ","f","o","u","n","d"," ","o","r"," ","n","o","t"," ","n","u","m","e","r","i","c","."," ">>, df)

PriorityHandler(df) ==
  LET priority == get_column_data(df, priority_patterns)
      ids == get_column_data(df, shipment_id_patterns)
  IN IF ~priority.found THEN Diagnostic("priority", <<"P","r","i","o","r","i","t","y"," ","c","o","l","u","m","n"," ","n","o","t"," ","f","o","u","n","d","."," ">>, df)
     ELSE IF ~HasStr(priority.data) THEN Exception("priority", "AttributeError")
     ELSE LET mask == ContainsMask(priority.data, <<"h","i","g","h">>)
          IN Answer("priority",
               [count |-> Cardinality(mask), total |-> NumRows(df),
                ids_listed |-> mask # {} /\ ids.found,
                ids |-> IF mask # {} /\ ids.found THEN Masked(ids.data, mask) ELSE <<>>])

TodayHandler(df, today) ==
  LET delivery == get_column_data(df, delivery_date_patterns)
      ids == get_column_data(df, shipment_id_patterns)
  IN IF ~delivery.found
     THEN Diagnostic("today", <<"D","e","l","i","v","e","r","y"," ","d","a","t","e"," ","c","o","l","u","m","n"," ","n","o","t"," ","f","o","u","n","d","."," ">>, df)
     ELSE IF delivery.data.frame THEN Exception("today", "AttributeError")
     ELSE LET mask == TodayMask(delivery.data, today)
          IN Answer("today",
               [count |-> Cardinality(mask), total |-> NumRows(df),
                ids_listed |-> mask # {} /\ ids.found,
                ids |-> IF mask # {} /\ ids.found THEN Masked(ids.data, mask) ELSE <<>>])

TotalHandler(df, question_lower) ==
  IF Contains(question_lower, <<"d","e","l","a","y","e","d">>) \/ Contains(question_lower, <<"p","e","n","d","i","n","g">>)
  THEN DelayedPending(df)
  ELSE Answer("total", [total |-> NumRows(df)])

\* the if / elif chain of analyze_question_directly with the delivery-today
\* test moved in front of the total test
analyze_question_today_first(df, question, today) ==
  LET question_lower == Lower(question)
  IN IF AnyPhrase(question_lower, today_phrases) THEN TodayHandler(df, today)
     ELSE IF AnyPhrase(question_lower, total_phrases) THEN TotalHandler(df, question_lower)
     ELSE IF AnyPhrase(question_lower, carrier_phrases)
     THEN LeaderHandler(df, "carrier", carrier_patterns, <<"C","a","r","r","i","e","r"," ","c","o","l","u","m","n"," ","n","o","t"," ","f","o","u","n","d","."," ">>)
     ELSE IF AnyPhrase(question_lower, status_phrases) THEN StatusHandler(df)
     ELSE IF AnyPhrase(question_lower, cost_phrases) THEN CostHandler(df)
     ELSE IF AnyPhrase(question_lower, origin_phrases)
     THEN LeaderHandler(df, "origin", origin_patterns, <<"O","r","i","g","i","n"," ","c","o","l","u","m","n"," ","n","o","t"," ","f","o","u","n","d","."," ">>)
     ELSE IF AnyPhrase(question_lower, destination_phrases)
     THEN LeaderHandler(df, "destination", destination_patterns,
                        <<"D","e","s","t","i","n","a","t","i","o","n"," ","c","o","l","u","m","n"," ","n","o","t"," ","f","o","u","n","d","."," ">>)
     ELSE IF AnyPhrase(question_lower, weight_phrases) THEN WeightHandler(df)
     ELSE IF AnyPhrase(question_lower, priority_phrases) THEN PriorityHandler(df)
     ELSE Absent

\* analyze_question_directly(df, question), on the day `today`
analyze_question_directly(df, question, today) ==
  LET question_lower == Lower(question)
  IN IF AnyPhrase(question_lower, total_phrases) THEN TotalHandler(df, question_lower)
     ELSE IF AnyPhrase(question_lower, carrier_phrases)
     THEN LeaderHandler(df, "carrier", carrier_patterns, <<"C","a","r","r","i","e","r"," ","c","o","l","u","m","n"," ","n","o","t"," ","f","o","u","n","d","."," ">>)
     ELSE IF AnyPhrase(question_lower, status_phrases) THEN StatusHandler(df)
     ELSE IF AnyPhrase(question_lower, cost_phrases) THEN CostHandler(df)
     ELSE IF AnyPhrase(question_lower, origin_phrases)
     THEN LeaderHandler(df, "origin", origin_patterns, <<"O","r","i","g","i","n"," ","c","o","l","u","m","n"," ","n","o","t"," ","f","o","u","n","d","."," ">>)
     ELSE IF AnyPhrase(question_lower, destination_phrases)
     THEN LeaderHandler(df, "destination", destination_patterns,
                        <<"D","e","s","t","i","n","a","t","i","o","n"," ","c","o","l","u","m","n"," ","n","o","t"," ","f","o","u","n","d","."," ">>)
     ELSE IF AnyPhrase(question_lower, weight_phrases) THEN WeightHandler(df)
     ELSE IF AnyPhrase(question_lower, priority_phrases) THEN PriorityHandler(df)
     ELSE IF AnyPhrase(question_lower, today_phrases) THEN TodayHandler(df, today)
     ELSE Absent

(***************************************************************************)
(* utils/llm_utils.py: the data context that is handed to the LLM.         *)
(***************************************************************************)
\* value_counts().to_dict(): value and count, most frequent first
to_dict(counts) ==
  [k \in DOMAIN counts |-> [value |-> counts[k].value, count |-> counts[k].count]]

\* the entries of analyze_data_directly that every table gets
BasicResults(df) ==
  [key \in {"total_shipments", "total_columns", "columns"} |->
     CASE key = "total_shipments" -> NumRows(df)
       [] key = "total_columns" -> Len(df.columns)
       [] OTHER -> df.columns]

\* the entries of a column that is counted value by value: the breakdown and
\* the most frequent value with its count (None and 0 of a column without value)
BreakdownResults(df, name, key, top) ==
  IF Positions(df, name) = {}
  THEN [k \in {} |-> 0]
  ELSE LET counts == value_counts(Selection(df, name), NumRows(df))
       IN [k \in {key, top} |->
             IF k = key THEN to_dict(counts)
             ELSE IF counts = <<>> THEN [value |-> None, count |-> 0]
             ELSE [value |-> counts[1].value, count |-> counts[1].count]]

StatusResults(df) ==
  IF Positions(df, <<"S","t","a","t","u","s">>) = {}
  THEN [k \in {} |-> 0]
  ELSE LET status == Selection(df, <<"S","t","a","t","u","s">>)
           delayed_mask == ContainsMask(status, <<"d","e","l","a","y">>)
       IN [k \in {"status_breakdown", "delayed_shipments", "delayed_shipment_ids"} |->
             CASE k = "status_breakdown" -> to_dict(value_counts(status, NumRows(df)))
               [] k = "delayed_shipments" -> Cardinality(delayed_mask)
               [] OTHER -> IF Positions(df, <<"S","h","i","p","m","e","n","t"," ","I","D">>) = {} THEN <<>>
                           ELSE Masked(Selection(df, <<"S","h","i","p","m","e","n","t"," ","I","D">>), delayed_mask)]

CostResults(df) ==
  IF Positions(df, <<"C","o","s","t">>) # {} /\ is_numeric_dtype(Selection(df, <<"C","o","s","t">>))
  THEN LET st == Statistics(Selection(df, <<"C","o","s","t">>))
       IN [k \in {"total_cost", "average_cost", "min_cost", "max_cost"} |->
             CASE k = "total_cost" -> st.sum
               [] k = "average_cost" -> st.mean
               [] k = "min_cost" -> st.min
               [] OTHER -> st.max]
  ELSE [k \in {} |-> 0]

\* analyze_data_directly(df, question): the results dict, or the exception
\* of df['Status'].str on a column that does not hold text
analyze_data_directly(df) ==
  IF Positions(df, <<"S","t","a","t","u","s">>) # {} /\ ~HasStr(Selection(df, <<"S","t","a","t","u","s">>))
  THEN [raised |-> TRUE, exception |-> "AttributeError"]
  ELSE [raised |-> FALSE,
        results |-> BasicResults(df)
                      @@ BreakdownResults(df, <<"C","a","r","r","i","e","r">>, "carrier_breakdown", "top_carrier")
                      @@ StatusResults(df)
                      @@ CostResults(df)
                      @@ BreakdownResults(df, <<"O","r","i","g","i","n">>, "origin_breakdown", "most_common_origin")
                      @@ BreakdownResults(df, <<"D","e","s","t","i","n","a","t","i","o","n">>, "destination_breakdown",
                                          "most_common_destination")]

\* the first n entries of a list
FirstN(list, n) == SubSeq(list, 1, IF Len(list) < n THEN Len(list) ELSE n)

\* df.head()
head(df) ==
  Table(df.columns,
        [i \in DOMAIN df.data |-> Column(df.data[i].dtype, FirstN(df.data[i].values, 5))])

\* the sections of the context that are written for the keys the analysis
\* holds, in the order they are written
ContextSections(analysis) ==
  (IF "carrier_breakdown" \in DOMAIN analysis
   THEN <<[title |-> "CARRIER BREAKDOWN", lines |-> analysis["carrier_breakdown"],
           top |-> analysis["top_carrier"]]>>
   ELSE <<>>)
  \o (IF "status_breakdown" \in DOMAIN analysis
      THEN <<[title |-> "STATUS BREAKDOWN", lines |-> analysis["status_breakdown"],
              delayed |-> IF analysis["delayed_shipments"] > 0
                          THEN <<analysis["delayed_shipments"],
                                 analysis["delayed_shipment_ids"]>>
                          ELSE <<>>]>>
      ELSE <<>>)
  \o (IF "total_cost" \in DOMAIN analysis
      THEN <<[title |-> "COST ANALYSIS", total |-> analysis["total_cost"],
              average |-> analysis["average_cost"], min |-> analysis["min_cost"],
              max |-> analysis["max_cost"]]>>
      ELSE <<>>)
  \o (IF "origin_breakdown" \in DOMAIN analysis
      THEN <<[title |-> "ORIGIN ANALYSIS",
              lines |-> FirstN(analysis["origin_breakdown"], 5)]>>
      ELSE <<>>)
  \o (IF "destination_breakdown" \in DOMAIN analysis
      THEN <<[title |-> "DESTINATION ANALYSIS",
              lines |-> FirstN(analysis["destination_breakdown"], 5)]>>
      ELSE <<>>)

\* get_direct_data_context(df): the context, or the exception of the analysis,
\* or that of ', '.join over delayed shipment ids that are not all text
get_direct_data_context(df) ==
  LET analysis == analyze_data_directly(df)
  IN IF analysis.raised THEN analysis
     ELSE IF /\ "delayed_shipments" \in DOMAIN analysis.results
             /\ analysis.results["delayed_shipments"] > 0
             /\ \E id \in Range(analysis.results["delayed_shipment_ids"]) : id.t # "str"
     THEN [raised |-> TRUE, exception |-> "TypeError"]
     ELSE [raised |-> FALSE,
           total_shipments |-> analysis.results["total_shipments"],
           total_columns |-> analysis.results["total_columns"],
           columns |-> analysis.results["columns"],
           sections |-> ContextSections(analysis.results),
           sample |-> head(df)]

(***************************************************************************)
(* utils/carrier_utils.py: the list of approved carriers kept as a JSON    *)
(* file.  A file is absent, holds text, or holds bytes that are no text in *)
(* the encoding open() reads with.  One character beyond ASCII is          *)
(* written "U+00E9" (e with acute accent).                                 *)
(***************************************************************************)
NoSuchFile == [exists |-> FALSE, decodable |-> TRUE, text |-> <<>>]
TextFile(text) == [exists |-> TRUE, decodable |-> TRUE, text |-> text]
BinaryFile == [exists |-> TRUE, decodable |-> FALSE, text |-> <<>>]

\* the values json.load can return
JsonList(items) == [kind |-> "list", items |-> items]
JsonNull == [kind |-> "null", items |-> <<>>]
JsonDict == [kind |-> "dict", items |-> <<>>]

RECURSIVE Flatten(_)
Flatten(parts) ==
  IF parts = <<>> THEN <<>> ELSE Head(parts) \o Flatten(Tail(parts))

\* json.dump writes a character of a string as itself, behind a backslash
\* (quote, backslash), or as \uXXXX (ensure_ascii)
EscapeChar(ch) ==
  IF ch = "\"" THEN <<"\\", "\"">>
  ELSE IF ch = "\\" THEN <<"\\", "\\">>
  ELSE IF ch = "U+00E9" THEN <<"\\", "u", "0", "0", "e", "9">>
  ELSE <<ch>>

encode_string(text) ==
  <<"\"">> \o Flatten([i \in 1..Len(text) |-> EscapeChar(text[i])]) \o <<"\"">>

\* json.dumps(carriers, indent=4): one item per line, four spaces deep
dumps(carriers) ==
  IF carriers = <<>> THEN <<"[","]">>
  ELSE <<"[">>
       \o Flatten([i \in 1..Len(carriers) |->
            (IF i = 1 THEN <<"\n">> ELSE <<",", "\n">>)
              \o <<" "," "," "," ">> \o encode_string(carriers[i])])
       \o <<"\n", "]">>

Whitespace == {" ", "\n", "\t", "\r"}

RECURSIVE SkipWs(_, _)
SkipWs(s, i) ==
  IF i <= Len(s) /\ s[i] \in Whitespace THEN SkipWs(s, i + 1) ELSE i

Parsed(value, next) == [ok |-> TRUE, value |-> value, next |-> next]
Failed == [ok |-> FALSE, value |-> JsonNull, next |-> 0]

\* the decoder of a JSON string, from the character after its opening quote
RECURSIVE ScanString(_, _, _)
ScanString(s, i, acc) ==
  IF i > Len(s) THEN Failed
  ELSE IF s[i] = "\"" THEN Parsed(acc, i + 1)
  ELSE IF s[i] = "\\"
  THEN IF i + 1 > Len(s) THEN Failed
       ELSE IF s[i + 1] \in {"\"", "\\"}
       THEN ScanString(s, i + 2, Append(acc, s[i + 1]))
       ELSE IF i + 5 <= Len(s) /\ SubSeq(s, i + 1, i + 5) = <<"u","0","0","e","9">>
       THEN ScanString(s, i + 6, Append(acc, "U+00E9"))
       ELSE Failed
  ELSE IF s[i] \in {"\n", "\t", "\r"} THEN Failed
  ELSE ScanString(s, i + 1, Append(acc, s[i]))

\* the decoder of the items of a JSON array of strings, from the character
\* after '[' or ','
RECURSIVE ScanItems(_, _, _)
ScanItems(s, i, acc) ==
  LET j == SkipWs(s, i)
  IN IF j > Len(s) \/ s[j] # "\"" THEN Failed
     ELSE LET item == ScanString(s, j + 1, <<>>)
              k == SkipWs(s, item.next)
          IN IF ~item.ok \/ k > Len(s) THEN Failed
             ELSE IF s[k] = "," THEN ScanItems(s, k + 1, Append(acc, item.value))
             ELSE IF s[k] = "]" THEN Parsed(JsonList(Append(acc, item.value)), k + 1)
             ELSE Failed

\* the decoder of one JSON value: an array of strings, null or {}
ScanValue(s, i) ==
  IF i > Len(s) THEN Failed
  ELSE IF s[i] = "["
  THEN LET j == SkipWs(s, i + 1)
       IN IF j <= Len(s) /\ s[j] = "]" THEN Parsed(JsonList(<<>>), j + 1)
          ELSE ScanItems(s, i + 1, <<>>)
  ELSE IF i + 3 <= Len(s) /\ SubSeq(s, i, i + 3) = <<"n","u","l","l">> THEN Parsed(JsonNull, i + 4)
  ELSE IF i + 1 <= Len(s) /\ SubSeq(s, i, i + 1) = <<"{","}">> THEN Parsed(JsonDict, i + 2)
  ELSE Failed

\* json.loads(text): ok is FALSE where it raises JSONDecodeError (no value,
\* or other text behind the value)
loads(text) ==
  LET value == ScanValue(text, SkipWs(text, 1))
  IN IF value.ok /\ SkipWs(text, value.next) > Len(text) THEN value ELSE Failed

LoadReturns(value) == [raised |-> FALSE, error |-> "none", value |-> value]
LoadRaises(error) == [raised |-> TRUE, error |-> error, value |-> JsonNull]

\* load_approved_carriers() with the file as it stands: the except clause
\* catches json.JSONDecodeError only
load_approved_carriers(file) ==
  IF ~file.exists THEN LoadReturns(JsonList(<<>>))
  ELSE IF ~file.decodable THEN LoadRaises("UnicodeDecodeError")
  ELSE LET value == loads(file.text)
       IN IF value.ok THEN LoadReturns(value.value) ELSE LoadReturns(JsonList(<<>>))

\* the file save_approved_carriers(carriers) leaves
save_approved_carriers(carriers) == TextFile(dumps(carriers))

(***************************************************************************)
(* tabs/shipment_alert_tab.py and utils/formatters.py: the alert message   *)
(* for the delayed shipments.  A shipment is a dict from keys to texts; a  *)
(* character beyond ASCII is written by its code point.                    *)
(***************************************************************************)
\* {{ s.key }} in a Jinja2 template: the item of the dict, and the empty
\* text of Undefined when the dict has no such key
Attribute(s, key) == IF key \in DOMAIN s THEN s[key] ELSE <<>>

\* display_names.get(key, default)
DisplayName(display_names, key, default) ==
  IF key \in DOMAIN display_names THEN display_names[key] ELSE default

\* the display names format_multi_shipment_alert uses when it is given none
DefaultDisplayNames ==
  [key \in {"shipmentid", "status", "expectedarrival"} |->
     IF key = "shipmentid" THEN <<"S","h","i","p","m","e","n","t"," ","I","D">>
     ELSE IF key = "status" THEN <<"S","t","a","t","u","s">> ELSE <<"E","T","A">>]

\* {{ delay_count }} shipment{{ 's' if delay_count > 1 else '' }} currently delayed:
CountLine(delay_count) ==
  NatText(delay_count) \o <<" ","s","h","i","p","m","e","n","t">>
    \o (IF delay_count > 1 THEN <<"s">> ELSE <<>>) \o <<" ","c","u","r","r","e","n","t","l","y"," ","d","e","l","a","y","e","d",":">>

\* the body of the {% for s in shipments %} loop of the tab's template
TabItem(s, names) ==
  <<"\n">> \o <<"-"," ","*","*">> \o DisplayName(names, "shipmentid", <<"S","h","i","p","m","e","n","t"," ","I","D">>) \o <<":","*","*"," ">>
    \o Attribute(s, "shipmentid")
    \o <<"\n", " ", " ", "U+2022", " ">> \o <<"*","*">>
    \o DisplayName(names, "status", <<"S","t","a","t","u","s">>) \o <<":","*","*"," ">> \o Attribute(s, "status")
    \o <<"\n", " ", " ", "U+2022", " ">> \o <<"*","*">>
    \o DisplayName(names, "expectedarrival", <<"E","T","A">>) \o <<":","*","*"," ">>
    \o Attribute(s, "expectedarrival")
    \o <<"\n", " ", " ", "U+2022", " ">> \o <<"*","*","A","c","t","i","o","n",":","*","*"," ">> \o Attribute(s, "action")
    \o <<"\n">>

\* format_multi_shipment_alert(shipments, display_names) of the Shipment
\* Alerts tab; display_names is a dict, the empty one standing for None as
\* well (`if not display_names`)
format_multi_shipment_alert(shipments, display_names) ==
  LET names == IF DOMAIN display_names = {} THEN DefaultDisplayNames
               ELSE display_names
  IN <<"\n", "U+1F916", " ">> \o <<"*","*","L","o","g","i","B","o","t","'","s"," ","A","n","s","w","e","r","*","*">> \o <<"\n", "\n">>
      \o CountLine(Len(shipments)) \o <<"\n", "\n">>
      \o Flatten([i \in 1..Len(shipments) |-> TabItem(shipments[i], names)])

\* the body of the loop of the template of utils/formatters.py, whose
\* comments render as nothing and leave the spaces around them
FormattersItem(s) ==
  <<" ", "\n">> \o <<"-"," ","*","*","S","h","i","p","m","e","n","t"," ","I","D",":","*","*"," ">> \o Attribute(s, "shipment_id")
    \o <<" ", "\n", " ", " ", "U+00E2", "U+20AC", "U+00A2", " ">>
    \o <<"*","*","S","t","a","t","u","s",":","*","*"," ">> \o Attribute(s, "status")
    \o <<" ", "\n", " ", " ", "U+00E2", "U+20AC", "U+00A2", " ">>
    \o <<"*","*","E","T","A",":","*","*"," ">> \o Attribute(s, "eta")
    \o <<" ", "\n", " ", " ", "U+00E2", "U+20AC", "U+00A2", " ">>
    \o <<"*","*","A","c","t","i","o","n",":","*","*"," ">> \o Attribute(s, "action")
    \o <<" ", "\n">>

\* format_multi_shipment_alert(shipments) of utils/formatters.py
formatters_format_multi_shipment_alert(shipments) ==
  <<"\n", "U+00F0", "U+0178", "U+00A4", "U+2013", " ">>
    \o <<"*","*","L","o","g","i","B","o","t","'","s"," ","A","n","s","w","e","r","*","*">> \o <<"\n", "\n">>
    \o CountLine(Len(shipments)) \o <<"\n", "\n", "\n">>
    \o Flatten([i \in 1..Len(shipments) |-> FormattersItem(shipments[i])])
    \o <<" ">>

(***************************************************************************)
(* The state: of the resolver, the data cleaner, the direct analysis, the   *)
(* geocoding batch, the compliance check and the mapping suggestions when  *)
(* each is exercised on its own, and of a session of the app.              *)
(***************************************************************************)
VARIABLES
  r_cols,      \* the header row handed to the resolver (df.columns)
  r_pc,        \* "input", "mapped" once a ColumnMapper holds r_mapping, then
               \* "validated_function" or "validated_method"
  r_mapping,   \* ColumnMapper.mapping
  r_required,  \* the required fields of the last validation
  r_valid      \* the result of the last validation, (is_valid, missing)

r_vars == <<r_cols, r_pc, r_mapping, r_required, r_valid>>

VARIABLES
  c_df,        \* the table handed to clean_column_data
  c_mapping,   \* the column_mapping argument
  c_default,   \* TRUE when the call leaves column_mapping to its default None
  c_pc,        \* "input", "once" after the first call, "twice" after the second
  c_once,      \* the outcome of clean_column_data(c_df, c_mapping)
  c_twice      \* the outcome of clean_column_data on the table of c_once

c_vars == <<c_df, c_mapping, c_default, c_pc, c_once, c_twice>>

VARIABLES
  q_df,        \* the table handed to analyze_question_directly
  q_question,  \* the question
  q_today,     \* the day the question is asked, as YYYY-MM-DD
  q_pc,        \* "input", then "answered"
  q_result     \* the outcome of the call

q_vars == <<q_df, q_question, q_today, q_pc, q_result>>

VARIABLES
  uploaded_file,     \* the file the file_uploader widget holds, or NoFile
  s_df,              \* st.session_state.df
  s_df_original,     \* st.session_state.df_original
  s_data_processed,  \* st.session_state.data_processed
  s_column_mapping,  \* st.session_state.column_mapping
  s_retriever,       \* st.session_state.retriever, NoneDf when the key is absent
  latest_answer,     \* st.session_state.latest_answer; llm_answer holds the last answer stored in it
  chat_history,      \* st.session_state.chat_history, without the timestamps
  llm_log,           \* the calls of answer_question so far: question and table
  upload_notice,     \* what the upload block of the last run showed
  ask_notice,        \* what the Get Answer handler of the last run showed
  apply_notice,      \* what the Apply Column Mapping handler of the last run
                     \* showed: "success", or "error" for an exception
  rerun_pending      \* TRUE between st.rerun() and the run it starts

s_vars ==
  <<uploaded_file, s_df, s_df_original, s_data_processed, s_column_mapping,
    s_retriever, latest_answer, chat_history, llm_log,
    upload_notice, ask_notice, apply_notice, rerun_pending>>

VARIABLES
  g_mode,      \* "utils" for add_geographic_coordinates, "app" for the Generate
               \* Geographic Coordinates button of the Data Mapping tab
  g_df,        \* the table the batch runs on
  g_pc,        \* "input", "loop" between two cities, "geocode" and "sleep"
               \* within the turn of a city, "done" after the batch
  g_cities,    \* the set the loop iterates over
  g_todo,      \* the cities the loop has not reached yet
  g_city,      \* the city of the current turn
  g_result,    \* coords of the current turn, between the lookup and its use
  g_coords,    \* city_coordinates / location_coords, the dict of the batch
  g_trace,     \* per city, what its turns did: cache lookups, requests, pauses
  g_out        \* the coordinate columns of the returned table, row by row

g_vars ==
  <<g_mode, g_df, g_pc, g_cities, g_todo, g_city, g_result, g_coords, g_trace, g_out>>

VARIABLES
  k_site,      \* "tab" for the Carrier Check tab, "report" for the compliance
               \* notes of the Excel report, "function" for
               \* check_manifest_compliance
  k_df,        \* the manifest
  k_mapping,   \* st.session_state.column_mapping.get('carrier')
  k_approved,  \* the list of approved carriers
  k_pc,        \* "input", then "checked"
  k_result     \* whether a carrier column was checked, and the carriers that
               \* were reported as unapproved

k_vars == <<k_site, k_df, k_mapping, k_approved, k_pc, k_result>>

VARIABLES
  m_cols,        \* ColumnMapper.df.columns
  m_mapping,     \* ColumnMapper.mapping
  m_pc,          \* "input", "mapped" once the ColumnMapper is constructed,
                 \* "updated" after update_mapping, then "suggested"
  m_suggestions  \* the result of generate_mapping_suggestions

m_vars == <<m_cols, m_mapping, m_pc, m_suggestions>>

VARIABLES
  l_file,      \* data/approved_carriers.json
  l_carriers,  \* the list last handed to save_approved_carriers; in a session,
               \* st.session_state.approved_carriers
  l_fresh,     \* TRUE while the file is as the last save left it
  l_pc,        \* what happened last: "start", "saved", "loaded", "replaced",
               \* or the button of the session that was pressed
  l_result     \* the outcome of the last load_approved_carriers()

l_vars == <<l_file, l_carriers, l_fresh, l_pc, l_result>>

VARIABLES
  f_site,       \* "tab" for format_multi_shipment_alert of the Shipment Alerts
                \* tab, "formatters" for the one of utils/formatters.py
  f_shipments,  \* the list of delayed shipments handed to it
  f_names,      \* the display_names argument (empty when it is left out)
  f_pc,         \* "input", then "rendered"
  f_message     \* the message returned

f_vars == <<f_site, f_shipments, f_names, f_pc, f_message>>

VARIABLES
  d_df,         \* the manifest whose delayed shipments are counted
  d_dashboard,  \* what the Dashboard tab shows as Delayed Shipments
  d_metrics,    \* what display_key_metrics shows as Delayed
  d_direct,     \* what the direct delayed/pending answer of the AI tab counts
  d_alert       \* what the Shipment Alerts tab lists as delayed

d_vars == <<d_df, d_dashboard, d_metrics, d_direct, d_alert>>

VARIABLES
  a_approved,   \* st.session_state.approved_carriers
  a_file,       \* the carrier file
  a_pc          \* "start", then the last action on the list

a_vars == <<a_approved, a_file, a_pc>>

vars == <<r_vars, c_vars, q_vars, s_vars, g_vars, k_vars, m_vars, l_vars, f_vars, d_vars, a_vars>>

\* the variables an action of one component leaves alone
not_r_vars == <<c_vars, q_vars, s_vars, g_vars, k_vars, m_vars, l_vars, f_vars, d_vars, a_vars>>
not_c_vars == <<r_vars, q_vars, s_vars, g_vars, k_vars, m_vars, l_vars, f_vars, d_vars, a_vars>>
not_q_vars == <<r_vars, c_vars, s_vars, g_vars, k_vars, m_vars, l_vars, f_vars, d_vars, a_vars>>
not_s_vars == <<r_vars, c_vars, q_vars, g_vars, k_vars, m_vars, l_vars, f_vars, d_vars, a_vars>>
not_g_vars == <<r_vars, c_vars, q_vars, s_vars, k_vars, m_vars, l_vars, f_vars, d_vars, a_vars>>
not_k_vars == <<r_vars, c_vars, q_vars, s_vars, g_vars, m_vars, l_vars, f_vars, d_vars, a_vars>>
not_m_vars == <<r_vars, c_vars, q_vars, s_vars, g_vars, k_vars, l_vars, f_vars, d_vars, a_vars>>
not_l_vars == <<r_vars, c_vars, q_vars, s_vars, g_vars, k_vars, m_vars, f_vars, d_vars, a_vars>>
not_f_vars == <<r_vars, c_vars, q_vars, s_vars, g_vars, k_vars, m_vars, l_vars, d_vars, a_vars>>
not_d_vars == <<r_vars, c_vars, q_vars, s_vars, g_vars, k_vars, m_vars, l_vars, f_vars, a_vars>>
not_a_vars == <<r_vars, c_vars, q_vars, s_vars, g_vars, k_vars, m_vars, l_vars, f_vars, d_vars>>

(***************************************************************************)
(* The resolver on its own: a header row is drawn, optionally normalized   *)
(* as the upload does, resolved, and validated.                            *)
(***************************************************************************)
\* header names a manifest may carry
HeaderNames ==
  {<<"C","a","r","r","i","e","r">>, <<"C","A","R","R","I","E","R">>, <<"c","a","r","r","i","e","r","_","n","a","m","e">>, <<"C","a","r","r","i","e","r","N","a","m","e">>, <<"C","a","r","r","i","e","r","-","N","a","m","e">>,
   <<"O","r","i","g","i","n">>, <<"o","r","i","g","i","n">>, <<"D","e","s","t","i","n","a","t","i","o","n">>, <<"S","h","i","p"," ","D","a","t","e">>}

RECURSIVE SeqsUpTo(_, _)
SeqsUpTo(S, n) ==
  IF n = 0 THEN {<<>>}
  ELSE LET shorter == SeqsUpTo(S, n - 1)
       IN shorter \cup {Append(s, x) : s \in shorter, x \in S}

\* names validate_required_columns may be asked for: the standard fields and
\* one name that is not a standard field
RequiredNames == {"carrier", "origin", "destination", "volume"}

RequiredLists == {DefaultRequired} \cup SeqsUpTo(RequiredNames, MaxRequired)

NoResult == [is_valid |-> FALSE, missing |-> <<"(none)">>]

EmptyMapping == [f \in {} |-> None]

RInit ==
  /\ r_cols \in SeqsUpTo(HeaderNames, MaxCols)
  /\ r_pc = "input"
  /\ r_mapping = EmptyMapping
  /\ r_required = <<>>
  /\ r_valid = NoResult

\* the upload's normalize_column_names before the resolver sees the header
RNormalize ==
  /\ r_pc = "input"
  /\ r_cols' = normalize_column_names(r_cols)
  /\ r_cols' # r_cols
  /\ UNCHANGED <<r_pc, r_mapping, r_required, r_valid>>
  /\ UNCHANGED not_r_vars

\* ColumnMapper(df): self.mapping = detect_column_mapping(df)
RDetect ==
  /\ r_pc = "input"
  /\ r_mapping' = detect_column_mapping(r_cols)
  /\ r_pc' = "mapped"
  /\ UNCHANGED <<r_cols, r_required, r_valid>>
  /\ UNCHANGED not_r_vars

\* validate_required_columns(df, required)
RValidate ==
  /\ r_pc = "mapped"
  /\ \E required \in RequiredLists :
       /\ r_required' = required
       /\ r_valid' = validate_required_columns(r_cols, required)
  /\ r_pc' = "validated_function"
  /\ UNCHANGED <<r_cols, r_mapping>>
  /\ UNCHANGED not_r_vars

\* ColumnMapper.validate_required_columns(required)
RMapperValidate ==
  /\ r_pc = "mapped"
  /\ \E required \in RequiredLists :
       /\ r_required' = required
       /\ r_valid' = ColumnMapper_validate_required_columns(r_mapping, required)
  /\ r_pc' = "validated_method"
  /\ UNCHANGED <<r_cols, r_mapping>>
  /\ UNCHANGED not_r_vars

\* no resolver call is in progress
RIdle ==
  /\ r_cols = <<>>
  /\ r_pc = "idle"
  /\ r_mapping = EmptyMapping
  /\ r_required = <<>>
  /\ r_valid = NoResult

(***************************************************************************)
(* The data cleaner on its own: a table and a mapping are drawn and        *)
(* clean_column_data is applied to the table, then to its own result.      *)
(***************************************************************************)
\* the header rows of the tables drawn: two columns, with distinct names or
\* with the same name
CleanHeaders == {<<<<"c","a","r","r","i","e","r">>, <<"c","o","s","t">>>>, <<<<"c","a","r","r","i","e","r">>, <<"c","a","r","r","i","e","r">>>>}

\* cells of a column of text as read from a file, and of a numeric column
TextCells == {Str(<<" ","d","H","L">>), Str(<<"1","2">>), Str(<<"2","0","2","4","-","0","8","-","0","1">>), NaN}
NumberCells == {Num(1250), NaN}

ColumnsOfRows(n) ==
  {Column("object", vs) : vs \in [1..n -> TextCells]}
    \cup {Column("float64", vs) : vs \in [1..n -> NumberCells]}

\* the fields the mappings drawn for the cleaner may name, and the column
\* names they may give them (the last is not a column of any table drawn)
CleanFields == {"carrier", "status", "cost", "date"}
CleanTargets == {<<"c","a","r","r","i","e","r">>, <<"c","o","s","t">>, <<"w","e","i","g","h","t">>}

CleanMappings ==
  UNION {[fs -> CleanTargets] : fs \in SUBSET CleanFields}

NoOutcome == Raised("not called")

CInit ==
  /\ \E n \in 1..MaxRows :
       \E header \in CleanHeaders :
         \E data \in [1..2 -> ColumnsOfRows(n)] :
           c_df = Table(header, data)
  /\ c_mapping \in CleanMappings
  /\ c_default \in BOOLEAN
  /\ c_default => c_mapping = EmptyMapping
  /\ c_pc = "input"
  /\ c_once = NoOutcome
  /\ c_twice = NoOutcome

CleanCall(df) ==
  IF c_default THEN clean_column_data_default(df) ELSE clean_column_data(df, c_mapping)

\* df_clean = clean_column_data(df, column_mapping)
CClean ==
  /\ c_pc = "input"
  /\ c_once' = CleanCall(c_df)
  /\ c_pc' = "once"
  /\ UNCHANGED <<c_df, c_mapping, c_default, c_twice>>
  /\ UNCHANGED not_c_vars

\* clean_column_data(df_clean, column_mapping), on the table the first call
\* returned
CCleanAgain ==
  /\ c_pc = "once"
  /\ c_once.ok
  /\ c_twice' = CleanCall(c_once.df)
  /\ c_pc' = "twice"
  /\ UNCHANGED <<c_df, c_mapping, c_default, c_once>>
  /\ UNCHANGED not_c_vars

\* no cleaner call is in progress
CIdle ==
  /\ c_df = EmptyTable
  /\ c_mapping = EmptyMapping
  /\ c_default = FALSE
  /\ c_pc = "idle"
  /\ c_once = NoOutcome
  /\ c_twice = NoOutcome

(***************************************************************************)
(* The direct analysis on its own: a table, a question and the day are     *)
(* drawn and analyze_question_directly is applied.                         *)
(***************************************************************************)
Texts(ss) == [i \in 1..Len(ss) |-> Str(ss[i])]

\* the columns of the manifests drawn for the analysis
CatalogHeader ==
  <<<<"S","h","i","p","m","e","n","t"," ","I","D">>, <<"C","a","r","r","i","e","r">>, <<"S","t","a","t","u","s">>, <<"C","o","s","t">>, <<"O","r","i","g","i","n">>, <<"D","e","s","t","i","n","a","t","i","o","n">>,
    <<"W","e","i","g","h","t">>, <<"P","r","i","o","r","i","t","y">>, <<"d","e","l","i","v","e","r","y","_","d","a","t","e">>, <<"T","r","a","c","k","i","n","g"," ","R","e","f">>>>

CatalogData ==
  <<Column("object", Texts(<<<<"S","H","P","1">>, <<"S","H","P","2">>, <<"S","H","P","3">>>>)),
    Column("object", Texts(<<<<"D","H","L">>, <<"U","P","S">>, <<"D","H","L">>>>)),
    Column("object", <<Str(<<"D","e","l","a","y","e","d">>), Str(<<"p","e","n","d","i","n","g">>), NaN>>),
    Column("float64", <<Num(2550), Num(4520), NaN>>),
    Column("object", Texts(<<<<"L","o","n","d","o","n">>, <<"L","e","e","d","s">>, <<"L","o","n","d","o","n">>>>)),
    Column("object", Texts(<<<<"Y","o","r","k">>, <<"Y","o","r","k">>, <<"H","u","l","l">>>>)),
    Column("int64", <<Num(1200), Num(300), Num(700)>>),
    Column("object", Texts(<<<<"H","i","g","h">>, <<"L","o","w">>, <<"h","i","g","h">>>>)),
    Column("object", <<Str(<<"2","0","2","4","-","0","8","-","0","2">>), Str(<<"0","3","/","1","1","/","2","0","2","6">>), NaN>>),
    Column("object", Texts(<<<<"D","H","L","1">>, <<"U","P","S","2">>, <<"D","H","L","3">>>>))>>

\* the catalog without the columns at the dropped positions
Without(dropped) ==
  LET kept == SelectSeq([i \in 1..Len(CatalogHeader) |-> i], LAMBDA i : i \notin dropped)
  IN Table([k \in 1..Len(kept) |-> CatalogHeader[kept[k]]],
           [k \in 1..Len(kept) |-> CatalogData[kept[k]]])

QueryTables ==
  {Without(dropped) : dropped \in {d \in SUBSET (1..Len(CatalogHeader)) :
                                     Cardinality(d) <= MaxDropped}}

\* the catalog with one column replaced
Replaced(name, column) ==
  Table(CatalogHeader,
        [i \in 1..Len(CatalogHeader) |->
           IF CatalogHeader[i] = name THEN column ELSE CatalogData[i]])

\* manifests with a carrier column that holds no value, with status and
\* priority columns that hold numbers, and a manifest of four shipments
OddTables ==
  {Replaced(<<"C","a","r","r","i","e","r">>, Column("float64", <<NaN, NaN, NaN>>)),
   Replaced(<<"S","t","a","t","u","s">>, Column("int64", <<Num(100), Num(200), Num(100)>>)),
   Replaced(<<"P","r","i","o","r","i","t","y">>, Column("int64", <<Num(100), Num(200), Num(300)>>)),
   Table(<<<<"S","t","a","t","u","s">>>>,
         <<Column("object", Texts(<<<<"D","e","l","i","v","e","r","e","d">>, <<"D","e","l","a","y","e","d">>, <<"I","n"," ","T","r","a","n","s","i","t">>,
                                    <<"D","e","l","a","y","e","d">>>>))>>)}

\* the pieces a question is put together from
Fragments ==
  {<<"t","o","t","a","l"," ","s","h","i","p","m","e","n","t","s">>, <<"d","e","l","a","y","e","d">>, <<"t","o","p"," ","c","a","r","r","i","e","r">>, <<"b","r","e","a","k","d","o","w","n">>,
   <<"s","h","i","p","p","i","n","g"," ","c","o","s","t">>, <<"o","r","i","g","i","n">>, <<"D","e","s","t","i","n","a","t","i","o","n">>, <<"w","e","i","g","h","t">>, <<"h","i","g","h"," ","p","r","i","o","r","i","t","y">>,
   <<"d","e","l","i","v","e","r","y"," ","t","o","d","a","y">>, <<"l","a","t","e">>}

RECURSIVE QuestionsUpTo(_)
QuestionsUpTo(n) ==
  IF n = 0 THEN {<<>>}
  ELSE LET shorter == QuestionsUpTo(n - 1)
       IN shorter \cup Fragments
            \cup {q \o <<" ">> \o f : q \in shorter \ {<<>>}, f \in Fragments}

Days == {<<"2","0","2","6","-","1","1","-","0","3">>}

QInit ==
  /\ q_df \in QueryTables \cup OddTables
  /\ q_question \in QuestionsUpTo(MaxFragments)
  /\ q_today \in Days
  /\ q_pc = "input"
  /\ q_result = Absent

\* direct_answer = analyze_question_directly(df, question)
QAnalyze ==
  /\ q_pc = "input"
  /\ q_result' = analyze_question_directly(q_df, q_question, q_today)
  /\ q_pc' = "answered"
  /\ UNCHANGED <<q_df, q_question, q_today>>
  /\ UNCHANGED not_q_vars

\* no analysis is in progress
QIdle ==
  /\ q_df = EmptyTable
  /\ q_question = <<>>
  /\ q_today = <<"2","0","2","6","-","1","1","-","0","3">>
  /\ q_pc = "idle"
  /\ q_result = Absent

(***************************************************************************)
(* app.py: the session.  One action is one run of the app script, started  *)
(* by the event it is named after: the upload block runs first (on the     *)
(* file the uploader holds), then the handler of the pressed button.  A    *)
(* handler that ends in st.rerun() leaves a rerun pending, and the rerun   *)
(* is the next run of the script.                                          *)
(***************************************************************************)
\* None where a DataFrame is expected
NoneDf == [columns |-> <<>>, data |-> <<>>, none |-> TRUE]

IsNone(t) == "none" \in DOMAIN t

\* df.empty
IsEmpty(t) == t.columns = <<>> \/ NumRows(t) = 0

NoFile == [name |-> "none", fails |-> FALSE, table |-> EmptyTable]

\* the files a user may choose: a manifest, a manifest whose carrier column
\* is blank, and a file pandas cannot read
Files ==
  {[name |-> "manifest.csv", fails |-> FALSE,
    table |-> Table(<<<<"C","a","r","r","i","e","r">>>>, <<Column("object", Texts(<<<<" ","d","h","l">>, <<"U","P","S">>>>))>>)],
   [name |-> "blank.csv", fails |-> FALSE,
    table |-> Table(<<<<"C","a","r","r","i","e","r">>>>, <<Column("float64", <<NaN, NaN>>)>>)],
   [name |-> "broken.csv", fails |-> TRUE, table |-> EmptyTable]}

\* manifests whose header rows name their columns in other ways: a carrier
\* column that is not called carrier, two columns that differ in case and
\* separators only, a column written with a hyphen
HeaderFiles ==
  {[name |-> "named.csv", fails |-> FALSE,
    table |-> Table(<<<<"C","a","r","r","i","e","r"," ","N","a","m","e">>, <<"C","o","s","t">>>>,
                    <<Column("object", Texts(<<<<"d","h","l">>, <<"U","P","S">>>>)),
                      Column("object", Texts(<<<<"1","2",".","5">>, <<"n","/","a">>>>))>>)],
   [name |-> "dates.csv", fails |-> FALSE,
    table |-> Table(<<<<"S","h","i","p"," ","D","a","t","e">>, <<"s","h","i","p","_","d","a","t","e">>>>,
                    <<Column("object", Texts(<<<<"2","0","2","4","-","0","8","-","0","1">>, <<"2","0","2","4","-","0","8","-","0","2">>>>)),
                      Column("object", Texts(<<<<"2","0","2","4","-","0","8","-","0","3">>, <<"2","0","2","4","-","0","8","-","0","4">>>>))>>)],
   [name |-> "hyphen.csv", fails |-> FALSE,
    table |-> Table(<<<<"C","a","r","r","i","e","r">>, <<"S","h","i","p","m","e","n","t","-","I","D">>>>,
                    <<Column("object", Texts(<<<<"d","h","l">>, <<"U","P","S">>>>)),
                      Column("object", Texts(<<<<"S","1">>, <<"S","2">>>>))>>)]}

\* df_raw.loc[:, ~df_raw.columns.duplicated()]: of the columns with the same
\* name the first is kept
DropDuplicated(t) ==
  LET kept == SelectSeq([i \in 1..Len(t.columns) |-> i],
                LAMBDA i : \A j \in 1..(i - 1) : t.columns[j] # t.columns[i])
  IN Table([k \in 1..Len(kept) |-> t.columns[kept[k]]],
           [k \in 1..Len(kept) |-> t.data[kept[k]]])

\* the part of the session the upload block writes
Loaded ==
  [df |-> s_df, df_original |-> s_df_original, data_processed |-> s_data_processed,
   column_mapping |-> s_column_mapping, notice |-> "none"]

\* the except branch of the upload block
UploadFailed(cur) ==
  [df |-> NoneDf, df_original |-> NoneDf, data_processed |-> FALSE,
   column_mapping |-> cur.column_mapping, notice |-> "error"]

\* the try branch of the upload block
UploadSucceeded(file, cur) ==
  LET df_normalized ==
        LET raw == DropDuplicated(file.table)
        IN Table(normalize_column_names(raw.columns), raw.data)
  IN [df |-> df_normalized, df_original |-> file.table, data_processed |-> TRUE,
      column_mapping |-> detect_column_mapping(df_normalized.columns),
      notice |-> "success"]

\* the upload block of one run of the script, on the session part cur
UploadBlock(file, cur) ==
  IF file = NoFile THEN cur
  ELSE IF file.fails THEN UploadFailed(cur)
  ELSE UploadSucceeded(file, cur)

\* the fields a user remaps and the mappings the selectboxes can give on a
\* table: every such field is left unmapped or set to one of the columns
MappableFields == {"shipment_id", "carrier"}

UserMappings(t) ==
  UNION {[fs -> Range(t.columns)] : fs \in SUBSET MappableFields}

\* the questions a user asks
Questions == {<<"T","o","p"," ","c","a","r","r","i","e","r","?">>, <<"l","a","t","e","?">>}

\* the answers of the LLM
LlmAnswer == [kind |-> "llm", handler |-> "llm", text |-> <<"I","t"," ","d","e","p","e","n","d","s",".">>, detail |-> <<>>]

Today == <<"2","0","2","6","-","1","1","-","0","3">>

SInit ==
  /\ uploaded_file = NoFile
  /\ s_df = NoneDf
  /\ s_df_original = NoneDf
  /\ s_data_processed = FALSE
  /\ s_column_mapping = EmptyMapping
  /\ s_retriever = NoneDf
  /\ latest_answer = Absent
  /\ chat_history = <<>>
  /\ llm_log = <<>>
  /\ upload_notice = "none"
  /\ ask_notice = "none"
  /\ apply_notice = "none"
  /\ rerun_pending = FALSE

\* what a run of the script leaves of the session when only its upload block
\* writes
RunUploadBlock(file) ==
  \E after \in {UploadBlock(file, Loaded)} :
    /\ s_df' = after.df
    /\ s_df_original' = after.df_original
    /\ s_data_processed' = after.data_processed
    /\ s_column_mapping' = after.column_mapping
    /\ upload_notice' = after.notice

\* the user chooses a new file, one of files, in the uploader
UploadOf(files) ==
  /\ ~rerun_pending
  /\ \E file \in files :
       /\ file # uploaded_file
       /\ uploaded_file' = file
       /\ RunUploadBlock(file)
  /\ ask_notice' = "none"
  /\ apply_notice' = "none"
  /\ UNCHANGED <<s_retriever, latest_answer, chat_history,
                 llm_log, rerun_pending>>
  /\ UNCHANGED not_s_vars

Upload == UploadOf(Files)

\* the user chooses a manifest with one of the other header rows
UploadHeaders == UploadOf(HeaderFiles)

\* the user removes the file from the uploader: the run finds no file and no
\* pressed button
RemoveFile ==
  /\ ~rerun_pending
  /\ uploaded_file # NoFile
  /\ uploaded_file' = NoFile
  /\ upload_notice' = "none"
  /\ ask_notice' = "none"
  /\ apply_notice' = "none"
  /\ UNCHANGED <<s_df, s_df_original, s_data_processed, s_column_mapping, s_retriever,
                 latest_answer, chat_history, llm_log, rerun_pending>>
  /\ UNCHANGED not_s_vars

\* Clear Data, the button of the branch without an uploaded file
ClearData ==
  /\ ~rerun_pending
  /\ uploaded_file = NoFile
  /\ s_df' = NoneDf
  /\ s_df_original' = NoneDf
  /\ s_data_processed' = FALSE
  /\ s_column_mapping' = EmptyMapping
  /\ s_retriever' = NoneDf
  /\ rerun_pending' = TRUE
  /\ upload_notice' = "none"
  /\ ask_notice' = "none"
  /\ apply_notice' = "none"
  /\ UNCHANGED <<uploaded_file, latest_answer, chat_history,
                 llm_log>>
  /\ UNCHANGED not_s_vars

\* a run of the script: the one st.rerun() starts, or one started by a widget
\* without a handler of its own
Rerun ==
  /\ RunUploadBlock(uploaded_file)
  /\ rerun_pending' = FALSE
  /\ ask_notice' = "none"
  /\ apply_notice' = "none"
  /\ UNCHANGED <<uploaded_file, s_retriever, latest_answer, chat_history, llm_log>>
  /\ UNCHANGED not_s_vars

\* Apply Column Mapping with a non-empty user_mapping: an exception of
\* apply_column_mapping or clean_column_data ends the run before the session
\* is written
ApplyColumnMapping ==
  /\ ~rerun_pending
  /\ \E after \in {UploadBlock(uploaded_file, Loaded)} :
       /\ ~IsNone(after.df)
       /\ ~IsEmpty(after.df)
       /\ \E user_mapping \in UserMappings(after.df) \ {EmptyMapping} :
            \E df_cleaned \in {clean_column_data(apply_column_mapping(after.df, user_mapping),
                                                 user_mapping)} :
              IF df_cleaned.ok
              THEN /\ s_df' = df_cleaned.df
                   /\ s_column_mapping' = user_mapping
                   /\ apply_notice' = "success"
                   /\ rerun_pending' = TRUE
              ELSE /\ s_df' = after.df
                   /\ s_column_mapping' = after.column_mapping
                   /\ apply_notice' = "error"
                   /\ UNCHANGED rerun_pending
       /\ s_df_original' = after.df_original
       /\ s_data_processed' = after.data_processed
       /\ upload_notice' = after.notice
  /\ ask_notice' = "none"
  /\ UNCHANGED <<uploaded_file, s_retriever, latest_answer, chat_history, llm_log>>
  /\ UNCHANGED not_s_vars

ChatEntry(question, answer) == [question |-> question, answer |-> answer]

\* answer_question(df, question): the question and the context of the table
\* are formatted into the prompt the LLM is invoked with
LlmCall(question, df) ==
  [question |-> question, table |-> df, context |-> get_direct_data_context(df)]

\* what the Get Answer handler leaves once analyze_question_directly has
\* returned direct: the LLM path (get_retriever once per session, then
\* answer_question) when direct is None; reply is what the LLM call does
AskOutcome(direct, retriever, question, reply) ==
  IF direct.kind = "exception"
  THEN [retriever |-> s_retriever, llm_log |-> llm_log,
        chat_history |-> chat_history, latest_answer |-> Absent, notice |-> "error"]
  ELSE IF direct.kind # "none"
  THEN [retriever |-> s_retriever, llm_log |-> llm_log,
        chat_history |-> Append(chat_history, ChatEntry(question, direct)),
        latest_answer |-> direct, notice |-> "direct"]
  ELSE IF get_direct_data_context(retriever).raised
  THEN [retriever |-> retriever, llm_log |-> llm_log,
        chat_history |-> chat_history, latest_answer |-> Absent, notice |-> "error"]
  ELSE IF reply = "raises"
  THEN [retriever |-> retriever,
        llm_log |-> Append(llm_log, LlmCall(question, retriever)),
        chat_history |-> chat_history, latest_answer |-> Absent, notice |-> "error"]
  ELSE [retriever |-> retriever,
        llm_log |-> Append(llm_log, LlmCall(question, retriever)),
        chat_history |-> Append(chat_history, ChatEntry(question, LlmAnswer)),
        latest_answer |-> LlmAnswer, notice |-> "ai"]

\* the Get Answer handler taking the LLM path whatever the direct analysis
\* returns
AskAlwaysLlm(t, question, reply) ==
  AskOutcome(Absent, IF IsNone(s_retriever) THEN t ELSE s_retriever, question, reply)

\* the Get Answer handler on the table t: the direct analysis first
Ask(t, question, reply) ==
  AskOutcome(analyze_question_directly(t, question, Today),
             IF IsNone(s_retriever) THEN t ELSE s_retriever, question, reply)

\* Get Answer with a question that is not blank
GetAnswer ==
  /\ ~rerun_pending
  /\ \E after \in {UploadBlock(uploaded_file, Loaded)} :
       /\ ~IsNone(after.df)
       /\ ~IsEmpty(after.df)
       /\ s_df' = after.df
       /\ s_df_original' = after.df_original
       /\ s_data_processed' = after.data_processed
       /\ s_column_mapping' = after.column_mapping
       /\ upload_notice' = after.notice
       /\ \E question \in Questions : \E reply \in {"returns", "raises"} :
            \E done \in {Ask(after.df, question, reply)} :
              /\ Len(done.chat_history) <= MaxHistory
              /\ Len(done.chat_history) + Len(done.llm_log) <= MaxHistory + 1
              /\ s_retriever' = done.retriever
              /\ llm_log' = done.llm_log
              /\ chat_history' = done.chat_history
              /\ latest_answer' = done.latest_answer
              /\ ask_notice' = done.notice
  /\ apply_notice' = "none"
  /\ UNCHANGED <<uploaded_file, rerun_pending>>
  /\ UNCHANGED not_s_vars

\* Clear History
ClearHistory ==
  /\ ~rerun_pending
  /\ \E after \in {UploadBlock(uploaded_file, Loaded)} :
       /\ ~IsNone(after.df)
       /\ ~IsEmpty(after.df)
  /\ RunUploadBlock(uploaded_file)
  /\ chat_history' = <<>>
  /\ latest_answer' = Absent
  /\ rerun_pending' = TRUE
  /\ ask_notice' = "none"
  /\ apply_notice' = "none"
  /\ UNCHANGED <<uploaded_file, s_retriever, llm_log>>
  /\ UNCHANGED not_s_vars

\* no session is open
SIdle == SInit

(***************************************************************************)
(* utils/geocoding_utils.py and the Generate Geographic Coordinates button *)
(* of app.py: the batch that resolves the cities of a manifest.  A         *)
(* coordinate is counted in ten-thousandths of a degree.                   *)
(***************************************************************************)
Coords(lat, lon) == [found |-> TRUE, lat |-> lat, lon |-> lon]

\* None, and the pair (None, None)
NoCoords == [found |-> FALSE, lat |-> 0, lon |-> 0]

\* entries of COMMON_CITIES_COORDS
COMMON_CITIES_COORDS ==
  {<<<<"n","e","w"," ","y","o","r","k">>, Coords(407128, -740060)>>,
   <<<<"l","o","s"," ","a","n","g","e","l","e","s">>, Coords(340522, -1182437)>>,
   <<<<"c","h","i","c","a","g","o">>, Coords(418781, -876298)>>,
   <<<<"p","h","i","l","a","d","e","l","p","h","i","a">>, Coords(399526, -751652)>>,
   <<<<"s","a","n"," ","f","r","a","n","c","i","s","c","o">>, Coords(377749, -1224194)>>,
   <<<<"l","o","n","d","o","n">>, Coords(515074, -1278)>>}

\* s.endswith(suffix)
EndsWith(s, suffix) ==
  /\ Len(s) >= Len(suffix)
  /\ SubSeq(s, Len(s) - Len(suffix) + 1, Len(s)) = suffix

suffixes_to_remove ==
  <<<<","," ","u","s","a">>, <<","," ","u","s">>, <<","," ","u","n","i","t","e","d"," ","s","t","a","t","e","s">>, <<","," ","u","k">>, <<","," ","c","a","n","a","d","a">>>>

\* the loop over suffixes_to_remove, from the suffix at position k on
RECURSIVE RemoveSuffixes(_, _)
RemoveSuffixes(city, k) ==
  IF k > Len(suffixes_to_remove) THEN city
  ELSE IF EndsWith(city, suffixes_to_remove[k])
  THEN RemoveSuffixes(Strip(SubSeq(city, 1, Len(city) - Len(suffixes_to_remove[k]))), k + 1)
  ELSE RemoveSuffixes(city, k + 1)

state_abbreviations ==
  {<<<<"n","y">>, <<"n","e","w"," ","y","o","r","k">>>>, <<<<"l","a">>, <<"l","o","s"," ","a","n","g","e","l","e","s">>>>, <<<<"s","f">>, <<"s","a","n"," ","f","r","a","n","c","i","s","c","o">>>>,
   <<<<"d","c">>, <<"w","a","s","h","i","n","g","t","o","n">>>>, <<<<"p","h","i","l","l","y">>, <<"p","h","i","l","a","d","e","l","p","h","i","a">>>>}

\* dict.get(key, default) of a dict given as its set of items
DictGet(items, key, default) ==
  IF \E item \in items : item[1] = key
  THEN (CHOOSE item \in items : item[1] = key)[2]
  ELSE default

\* clean_city_name(city_name) of a city name that is text
clean_city_name(city_name) ==
  IF city_name = <<>> THEN <<>>
  ELSE LET city == RemoveSuffixes(Lower(Strip(city_name)), 1)
       IN DictGet(state_abbreviations, city, city)

get_coordinates_from_cache(city_name) ==
  DictGet(COMMON_CITIES_COORDS, clean_city_name(city_name), NoCoords)

\* what requests.get does: it raises, or returns a response with its status
\* and the list its body decodes to
Response(raises, status_code, data) ==
  [raises |-> raises, status_code |-> status_code, data |-> data]

NoResponse == Response(FALSE, 0, <<>>)

Responses ==
  {Response(FALSE, 200, <<Coords(538008, -15491)>>),
   Response(FALSE, 200, <<Coords(537676, -3274)>>),
   Response(FALSE, 200, <<>>),
   Response(FALSE, 503, <<Coords(538008, -15491)>>),
   Response(TRUE, 0, <<>>)}

\* the coordinates read from the response whatever its status
ResponseCoordsAnyStatus(response) ==
  IF response.raises THEN NoCoords
  ELSE IF response.data # <<>> THEN response.data[1]
  ELSE NoCoords

\* the coordinates both geocoders read from the response of the service
ResponseCoords(response) ==
  IF response.raises THEN NoCoords
  ELSE IF response.status_code = 200 /\ response.data # <<>> THEN response.data[1]
  ELSE NoCoords

\* geocode_with_nominatim(city_name): whether the service is requested, with
\* which query, and the coordinates returned
geocode_with_nominatim(city_name, response) ==
  LET clean_city == clean_city_name(city_name)
  IN IF clean_city = <<>>
     THEN [requested |-> FALSE, q |-> <<>>, coords |-> NoCoords]
     ELSE [requested |-> TRUE, q |-> clean_city, coords |-> ResponseCoords(response)]

\* geocode_location(location_name) of the Data Mapping tab
geocode_location(location_name, response) ==
  IF Strip(location_name) = <<>>
  THEN [requested |-> FALSE, q |-> <<>>, coords |-> NoCoords]
  ELSE [requested |-> TRUE, q |-> Strip(location_name), coords |-> ResponseCoords(response)]

\* the column searches: add_geographic_coordinates keeps the last column whose
\* lowercase name contains 'origin' and the last other column whose name
\* contains 'destination' or 'dest'; the tab keeps the first column of each
\* kind
IsOriginName(col) == Contains(Lower(col), <<"o","r","i","g","i","n">>)
IsDestName(col) == Contains(Lower(col), <<"d","e","s","t","i","n","a","t","i","o","n">>) \/ Contains(Lower(col), <<"d","e","s","t">>)

LastColumn(columns, wanted) ==
  IF wanted = {} THEN None
  ELSE columns[CHOOSE i \in wanted : \A j \in wanted : j <= i]

FirstColumn(columns, wanted) ==
  IF wanted = {} THEN None
  ELSE columns[CHOOSE i \in wanted : \A j \in wanted : i <= j]

FindColumns(mode, columns) ==
  LET origins == {i \in DOMAIN columns : IsOriginName(columns[i])}
      dests == {i \in DOMAIN columns : IsDestName(columns[i])}
  IN IF mode = "utils"
     THEN [origin_col |-> LastColumn(columns, origins),
           dest_col |-> LastColumn(columns, dests \ origins)]
     ELSE [origin_col |-> FirstColumn(columns, origins),
           dest_col |-> FirstColumn(columns, dests)]

\* set(df[col].dropna().unique()) of the two columns
\* str(city_name) of clean_city_name on the value of a cell: a float cell of a
\* coordinate column becomes its text
CityKey(cell) ==
  IF cell.t = "num"
  THEN (IF cell.v < 0 THEN <<"-">> \o FloatText(0 - cell.v) ELSE FloatText(cell.v))
  ELSE cell.v

\* the four columns add_geographic_coordinates sets to None on its copy before
\* the loop over the rows
CoordinateColumns == <<<<"O","r","i","g","i","n"," ","L","a","t">>, <<"O","r","i","g","i","n"," ","L","o","n">>, <<"D","e","s","t"," ","L","a","t">>, <<"D","e","s","t"," ","L","o","n">>>>

\* df_with_coords after the four assignments of None: a column that carries
\* one of the names is replaced where it stands, the others are appended
InitialiseCoordinates(df) ==
  LET unset == Column("object", [r \in 1..NumRows(df) |-> NaN])
      fresh == SelectSeq(CoordinateColumns, LAMBDA c : c \notin Range(df.columns))
  IN Table(df.columns \o fresh,
           [i \in 1..Len(df.columns) |->
              IF df.columns[i] \in Range(CoordinateColumns) THEN unset ELSE df.data[i]]
             \o [i \in 1..Len(fresh) |-> unset])

UniqueCities(df, origin_col, dest_col) ==
  {CityKey(cell) : cell \in {c \in Range(Selection(df, origin_col).values)
                             \cup Range(Selection(df, dest_col).values) : ~IsNull(c)}}

GeoTable(origins, destinations) ==
  Table(<<<<"o","r","i","g","i","n">>, <<"d","e","s","t","i","n","a","t","i","o","n">>>>,
        <<Column("object", origins), Column("object", destinations)>>)

\* a manifest that already has its coordinates: Leeds was geocoded, Hull was not
GeocodedManifest ==
  Table(<<<<"o","r","i","g","i","n">>, <<"d","e","s","t","i","n","a","t","i","o","n">>>> \o CoordinateColumns,
        <<Column("object", Texts(<<<<"L","e","e","d","s">>>>)), Column("object", Texts(<<<<"H","u","l","l">>>>)),
          Column("float64", <<Num(5380)>>), Column("float64", <<Num(0 - 155)>>),
          Column("float64", <<NaN>>), Column("float64", <<NaN>>)>>)

GeoManifests ==
  {GeoTable(Texts(<<<<"L","o","n","d","o","n">>, <<"L","e","e","d","s">>>>), Texts(<<<<"L","e","e","d","s">>, <<"H","u","l","l">>>>)),
   GeoTable(<<Str(<<"L","o","n","d","o","n",","," ","U","K">>), Str(<<" ">>)>>, <<NaN, Str(<<"l","e","e","d","s">>)>>),
   GeoTable(Texts(<<<<"N","Y">>, <<"L","e","e","d","s">>>>), Texts(<<<<"L","e","e","d","s">>, <<"L","o","n","d","o","n">>>>)),
   Table(<<<<"O","r","i","g","i","n">>, <<"C","a","r","r","i","e","r">>>>,
         <<Column("object", Texts(<<<<"L","e","e","d","s">>>>)), Column("object", Texts(<<<<"D","H","L">>>>))>>),
   GeocodedManifest}

Event(e, response) == [e |-> e, response |-> response]

NoCoordinates == [city \in {} |-> NoCoords]

Unstarted == [added |-> FALSE, rows |-> <<>>]

\* the Data Mapping tab offers its own batch for a table without coordinate
\* columns, and Regenerate Coordinates, which calls add_geographic_coordinates,
\* for a table that has them
GInit ==
  /\ g_mode \in {"utils", "app"}
  /\ g_df \in GeoManifests
  /\ g_mode = "app" => Range(CoordinateColumns) \cap Range(g_df.columns) = {}
  /\ g_pc = "input"
  /\ g_cities = {}
  /\ g_todo = {}
  /\ g_city = <<>>
  /\ g_result = NoCoords
  /\ g_coords = NoCoordinates
  /\ g_trace = NoCoordinates
  /\ g_out = Unstarted

\* the start of the batch: add_geographic_coordinates returns the table as it
\* is when it does not find both columns; the tab shows its button only when
\* it found both
GBegin ==
  /\ g_pc = "input"
  /\ \E found \in {FindColumns(g_mode, g_df.columns)} :
       IF Truthy(found.origin_col) /\ Truthy(found.dest_col)
       THEN \E cities \in {UniqueCities(g_df, found.origin_col, found.dest_col)} :
              /\ g_cities' = cities
              /\ g_todo' = cities
              /\ g_trace' = [city \in cities |-> <<>>]
              /\ g_pc' = "loop"
       ELSE /\ g_mode = "utils"
            /\ g_pc' = "done"
            /\ UNCHANGED <<g_cities, g_todo, g_trace>>
  /\ UNCHANGED <<g_mode, g_df, g_city, g_result, g_coords, g_out>>
  /\ UNCHANGED not_g_vars

\* the loop takes the next city of the set, in the order the set yields them;
\* add_geographic_coordinates tries the cache and keeps the coordinates of a hit
GTake ==
  /\ g_pc = "loop"
  /\ \E city \in g_todo :
       /\ g_todo' = g_todo \ {city}
       /\ g_city' = city
       /\ IF g_mode = "utils"
          THEN \E coords \in {get_coordinates_from_cache(city)} :
                 /\ g_result' = coords
                 /\ g_trace' = [g_trace EXCEPT ![city] =
                      Append(@, Event(IF coords.found THEN "hit" ELSE "miss", NoResponse))]
                 /\ IF coords.found
                    THEN /\ g_coords' = [c \in DOMAIN g_coords \cup {city} |->
                                           IF c = city THEN coords ELSE g_coords[c]]
                         /\ g_pc' = "loop"
                    ELSE /\ g_pc' = "geocode"
                         /\ UNCHANGED g_coords
          ELSE /\ g_pc' = "geocode"
               /\ UNCHANGED <<g_result, g_trace, g_coords>>
  /\ UNCHANGED <<g_mode, g_df, g_cities, g_out>>
  /\ UNCHANGED not_g_vars

\* the coordinates a geocoder call of the batch returns for the city
Geocoded(mode, city, response) ==
  IF mode = "utils" THEN geocode_with_nominatim(city, response)
  ELSE geocode_location(city, response)

\* the geocoder call of the turn; the tab stores what it returns at once
GGeocode ==
  /\ g_pc = "geocode"
  /\ \E response \in Responses :
       \E call \in {Geocoded(g_mode, g_city, response)} :
         /\ g_result' = call.coords
         /\ g_trace' = [g_trace EXCEPT ![g_city] =
              IF call.requested THEN Append(@, Event("request", response)) ELSE @]
         /\ IF g_mode = "app"
            THEN g_coords' = [c \in DOMAIN g_coords \cup {g_city} |->
                                IF c = g_city THEN call.coords ELSE g_coords[c]]
            ELSE UNCHANGED g_coords
  /\ g_pc' = "sleep"
  /\ UNCHANGED <<g_mode, g_df, g_cities, g_todo, g_city, g_out>>
  /\ UNCHANGED not_g_vars

\* time.sleep(1), and the end of the turn: add_geographic_coordinates keeps
\* the coordinates when there are any
GSleep ==
  /\ g_pc = "sleep"
  /\ g_trace' = [g_trace EXCEPT ![g_city] = Append(@, Event("sleep", NoResponse))]
  /\ IF g_mode = "utils" /\ g_result.found
     THEN g_coords' = [c \in DOMAIN g_coords \cup {g_city} |->
                         IF c = g_city THEN g_result ELSE g_coords[c]]
     ELSE UNCHANGED g_coords
  /\ g_pc' = "loop"
  /\ UNCHANGED <<g_mode, g_df, g_cities, g_todo, g_city, g_result, g_out>>
  /\ UNCHANGED not_g_vars

\* the coordinates a row gets for the city of one of its cells
RowCoords(coordinates, cell) ==
  IF ~IsNull(cell) /\ CityKey(cell) \in DOMAIN coordinates
  THEN coordinates[CityKey(cell)] ELSE NoCoords

\* after the loop the four coordinate columns are filled in row by row;
\* add_geographic_coordinates reads the rows of its copy, whose coordinate
\* columns it has set to None
GApply ==
  /\ g_pc = "loop"
  /\ g_todo = {}
  /\ \E found \in {FindColumns(g_mode, g_df.columns)} :
       \E rows \in {IF g_mode = "utils" THEN InitialiseCoordinates(g_df) ELSE g_df} :
         g_out' = [added |-> TRUE,
                   rows |-> [r \in 1..NumRows(g_df) |->
                     [origin |-> RowCoords(g_coords, Selection(rows, found.origin_col).values[r]),
                      dest |-> RowCoords(g_coords, Selection(rows, found.dest_col).values[r])]]]
  /\ g_pc' = "done"
  /\ UNCHANGED <<g_mode, g_df, g_cities, g_todo, g_city, g_result, g_coords, g_trace>>
  /\ UNCHANGED not_g_vars

\* no batch is in progress
GIdle ==
  /\ g_mode = "utils"
  /\ g_df = EmptyTable
  /\ g_pc = "idle"
  /\ g_cities = {}
  /\ g_todo = {}
  /\ g_city = <<>>
  /\ g_result = NoCoords
  /\ g_coords = NoCoordinates
  /\ g_trace = NoCoordinates
  /\ g_out = Unstarted

(***************************************************************************)
(* The carrier compliance check: of the Carrier Check tab and of the Excel *)
(* report in app.py, and check_manifest_compliance of                      *)
(* utils/compliance_utils.py.                                              *)
(***************************************************************************)
\* str(c) of a cell that is text or null
PyStr(cell) == IF IsNull(cell) THEN <<"n","a","n">> ELSE cell.v

\* the carrier column of the tab: the mapped column, else 'carrier' when the
\* table has it; of the report: the mapped column or 'carrier'
TabCarrierColumn(df, mapped) ==
  IF ~Truthy(mapped) /\ Positions(df, <<"c","a","r","r","i","e","r">>) # {} THEN <<"c","a","r","r","i","e","r">> ELSE mapped

ReportCarrierColumn(mapped) == IF Truthy(mapped) THEN mapped ELSE <<"c","a","r","r","i","e","r">>

\* the list of the unique non-null carriers of the column that are not among
\* the lowercased approved carriers
unapproved_carriers(df, carrier_col, approved) ==
  LET manifest_carriers == Distinct(Selection(df, carrier_col))
      approved_carriers_lower == {Lower(c) : c \in Range(approved)}
  IN SelectSeq([k \in DOMAIN manifest_carriers |-> manifest_carriers[k].v],
               LAMBDA c : Lower(c) \notin approved_carriers_lower)

NotChecked == [checked |-> FALSE, unapproved |-> <<>>, missing_tracking |-> <<>>]

\* the Carrier Check tab
CarrierCheckTab(df, mapped, approved) ==
  LET carrier_col == TabCarrierColumn(df, mapped)
  IN IF Truthy(carrier_col) /\ Positions(df, carrier_col) # {}
     THEN [checked |-> TRUE, unapproved |-> unapproved_carriers(df, carrier_col, approved),
           missing_tracking |-> <<>>]
     ELSE NotChecked

\* the compliance notes of Generate Excel Report
ComplianceNotes(df, mapped, approved) ==
  LET carrier_col == ReportCarrierColumn(mapped)
  IN IF Positions(df, carrier_col) # {}
     THEN [checked |-> TRUE, unapproved |-> unapproved_carriers(df, carrier_col, approved),
           missing_tracking |-> <<>>]
     ELSE NotChecked

\* df.columns.str.strip().str.lower().str.replace(" ", "")
CompactHeader(columns) ==
  [i \in DOMAIN columns |-> SelectSeq(Lower(Strip(columns[i])), LAMBDA ch : ch # " ")]

\* the rows of check_manifest_compliance whose stripped, lowercased carrier is
\* not an element of approved_carriers
unapproved_rows(df, approved) ==
  LET rows == SelectSeq([r \in 1..NumRows(df) |-> r],
                LAMBDA r : LET carrier == Lower(Strip(PyStr(Selection(df, <<"c","a","r","r","i","e","r">>).values[r])))
                           IN carrier # <<>> /\ carrier \notin Range(approved))
  IN [k \in DOMAIN rows |-> Lower(Strip(PyStr(Selection(df, <<"c","a","r","r","i","e","r">>).values[rows[k]])))]

\* check_manifest_compliance(df, approved_carriers): the rows without tracking
\* number and the carriers of the rows with an unapproved carrier
check_manifest_compliance(df, approved) ==
  LET normalised == Table(CompactHeader(df.columns), df.data)
  IN [checked |-> Positions(normalised, <<"c","a","r","r","i","e","r">>) # {},
      unapproved |-> IF Positions(normalised, <<"c","a","r","r","i","e","r">>) # {}
                     THEN unapproved_rows(normalised, approved) ELSE <<>>,
      missing_tracking |->
        IF Positions(normalised, <<"t","r","a","c","k","i","n","g","n","u","m","b","e","r">>) # {}
        THEN SelectSeq([r \in 1..NumRows(df) |-> r],
               LAMBDA r : IsNull(Selection(normalised, <<"t","r","a","c","k","i","n","g","n","u","m","b","e","r">>).values[r]))
        ELSE <<>>]

CarrierCells == {Str(<<"D","H","L">>), Str(<<"d","h","l">>), Str(<<"U","p","s"," ">>), Str(<<"X","Y","Z">>), NaN}

CarrierHeaders == {<<"c","a","r","r","i","e","r">>, <<"C","a","r","r","i","e","r"," ","N","a","m","e">>}

ComplianceManifests ==
  {Table(<<header>>, <<Column("object", <<first, second>>)>>) :
     header \in CarrierHeaders, first \in CarrierCells, second \in CarrierCells}
  \cup {Table(<<<<"T","r","a","c","k","i","n","g"," ","N","u","m","b","e","r">>, <<"c","a","r","r","i","e","r">>>>,
              <<Column("object", <<NaN, Str(<<"T","2">>)>>),
                Column("object", <<Str(<<"D","H","L">>), Str(<<"X","Y","Z">>)>>)>>)}

ApprovedLists == {<<>>, <<<<"D","H","L">>>>, <<<<"d","h","l">>>>, <<<<"U","p","s">>, <<"d","h","l">>>>, <<<<"u","p","s">>, <<"D","H","L">>>>}

KInit ==
  /\ k_site \in {"tab", "report", "function"}
  /\ k_df \in ComplianceManifests
  /\ k_mapping \in {None} \cup Range(k_df.columns)
  /\ k_approved \in ApprovedLists
  /\ k_pc = "input"
  /\ k_result = NotChecked

KCarrierCheckTab ==
  /\ k_pc = "input"
  /\ k_site = "tab"
  /\ k_result' = CarrierCheckTab(k_df, k_mapping, k_approved)
  /\ k_pc' = "checked"
  /\ UNCHANGED <<k_site, k_df, k_mapping, k_approved>>
  /\ UNCHANGED not_k_vars

KExcelReport ==
  /\ k_pc = "input"
  /\ k_site = "report"
  /\ k_result' = ComplianceNotes(k_df, k_mapping, k_approved)
  /\ k_pc' = "checked"
  /\ UNCHANGED <<k_site, k_df, k_mapping, k_approved>>
  /\ UNCHANGED not_k_vars

\* check_manifest_compliance replaces the header of the table it is given
KCheckManifest ==
  /\ k_pc = "input"
  /\ k_site = "function"
  /\ k_result' = check_manifest_compliance(k_df, k_approved)
  /\ k_df' = Table(CompactHeader(k_df.columns), k_df.data)
  /\ k_pc' = "checked"
  /\ UNCHANGED <<k_site, k_mapping, k_approved>>
  /\ UNCHANGED not_k_vars

\* no check is in progress
KIdle ==
  /\ k_site = "tab"
  /\ k_df = EmptyTable
  /\ k_mapping = None
  /\ k_approved = <<>>
  /\ k_pc = "idle"
  /\ k_result = NotChecked

(***************************************************************************)
(* ColumnMapper.generate_mapping_suggestions of utils/column_utils.py.  A  *)
(* score is counted in tenths.                                             *)
(***************************************************************************)
\* str.split(): the words between the runs of blanks
RECURSIVE Words(_)
Words(s) ==
  LET rest == LStrip(s)
  IN IF rest = <<>> THEN <<>>
     ELSE LET blanks == {i \in DOMAIN rest : rest[i] = " "}
              stop == IF blanks = {} THEN Len(rest) + 1
                      ELSE CHOOSE i \in blanks : \A j \in blanks : i <= j
          IN <<SubSeq(rest, 1, stop - 1)>> \o Words(SubSeq(rest, stop, Len(rest)))

\* the score of a lowercased column name against one variant
VariantScore(df_col_lower, possible_name) ==
  IF df_col_lower = possible_name THEN 10
  ELSE IF Contains(df_col_lower, possible_name) THEN 8
  ELSE IF \E part \in Range(Words(possible_name)) : Contains(df_col_lower, part) THEN 6
  ELSE IF Contains(possible_name, df_col_lower) THEN 4
  ELSE 0

\* max_score after the loop over the variants from position k on
RECURSIVE MaxScore(_, _, _, _)
MaxScore(df_col_lower, possible_names, k, max_score) ==
  IF k > Len(possible_names) THEN max_score
  ELSE LET score == VariantScore(df_col_lower, possible_names[k])
       IN MaxScore(df_col_lower, possible_names, k + 1,
                   IF score > max_score THEN score ELSE max_score)

\* column_scores of a field: the columns that score more than 0, in the
\* order of the header
ColumnScores(cols, possible_names) ==
  LET scored == SelectSeq([i \in DOMAIN cols |-> i],
                  LAMBDA i : MaxScore(Lower(cols[i]), possible_names, 1, 0) > 0)
  IN [k \in DOMAIN scored |->
        [column |-> cols[scored[k]],
         score |-> MaxScore(Lower(cols[scored[k]]), possible_names, 1, 0)]]

\* list.sort(key=score, reverse=True): stable, the highest score first
SortByScore(column_scores) ==
  LET n == Len(column_scores)
      rank(k) == 1 + Cardinality({j \in 1..n :
                   \/ column_scores[j].score > column_scores[k].score
                   \/ column_scores[j].score = column_scores[k].score /\ j < k})
  IN [p \in 1..n |-> column_scores[CHOOSE k \in 1..n : rank(k) = p]]

\* generate_mapping_suggestions leaving column_scores in the order of the header
generate_mapping_suggestions_unsorted(cols, mapping) ==
  [standard_field \in {f \in Fields : Get(mapping, f) = None} |->
     SubSeq(ColumnScores(cols, STANDARD_COLUMNS[standard_field]), 1,
            IF Len(ColumnScores(cols, STANDARD_COLUMNS[standard_field])) < 3
            THEN Len(ColumnScores(cols, STANDARD_COLUMNS[standard_field])) ELSE 3)]

\* ColumnMapper.generate_mapping_suggestions(), on self.df.columns and
\* self.mapping
generate_mapping_suggestions(cols, mapping) ==
  [standard_field \in {f \in Fields : Get(mapping, f) = None} |->
     LET column_scores == SortByScore(ColumnScores(cols, STANDARD_COLUMNS[standard_field]))
     IN SubSeq(column_scores, 1, IF Len(column_scores) < 3 THEN Len(column_scores) ELSE 3)]

SuggestHeaders == {<<"S","h","i","p">>, <<"N","a","m","e">>, <<"C","a","r","r","i","e","r","N","a","m","e">>, <<"C","a","r","r","i","e","r","-","N","a","m","e">>, <<"C","a","r","r","i","e","r">>}

\* the mappings update_mapping is called with
MappingUpdates(cols) == [{"carrier"} -> {None} \cup Range(cols)]

NoSuggestions == [f \in {} |-> <<>>]

MInit ==
  /\ m_cols \in SeqsUpTo(SuggestHeaders, MaxSuggestCols)
  /\ m_pc = "input"
  /\ m_mapping = EmptyMapping
  /\ m_suggestions = NoSuggestions

\* ColumnMapper(df)
MConstruct ==
  /\ m_pc = "input"
  /\ m_mapping' = detect_column_mapping(m_cols)
  /\ m_pc' = "mapped"
  /\ UNCHANGED <<m_cols, m_suggestions>>
  /\ UNCHANGED not_m_vars

\* ColumnMapper.update_mapping(new_mapping): self.mapping.update(new_mapping)
MUpdateMapping ==
  /\ m_pc = "mapped"
  /\ \E new_mapping \in MappingUpdates(m_cols) :
       m_mapping' = [f \in DOMAIN m_mapping \cup DOMAIN new_mapping |->
                       IF f \in DOMAIN new_mapping THEN new_mapping[f] ELSE m_mapping[f]]
  /\ m_pc' = "updated"
  /\ UNCHANGED <<m_cols, m_suggestions>>
  /\ UNCHANGED not_m_vars

MSuggest ==
  /\ m_pc \in {"mapped", "updated"}
  /\ m_suggestions' = generate_mapping_suggestions(m_cols, m_mapping)
  /\ m_pc' = "suggested"
  /\ UNCHANGED <<m_cols, m_mapping>>
  /\ UNCHANGED not_m_vars

\* no ColumnMapper is in use
MIdle ==
  /\ m_cols = <<>>
  /\ m_pc = "idle"
  /\ m_mapping = EmptyMapping
  /\ m_suggestions = NoSuggestions

(***************************************************************************)
(* The carrier file on its own: lists are saved, the file is loaded, and   *)
(* the file is replaced or removed from outside the program.               *)
(***************************************************************************)
\* the carrier names drawn: plain, with a quote, with a backslash, with a
\* character beyond ASCII
CarrierNames ==
  {<<"D","H","L">>, <<"A", "\"", "b">>, <<"c", "\\">>, <<"U+00E9">>, <<"a",","," ","b">>}

\* the files found in place of a saved one: none, an empty file, a list cut
\* short, text that is no JSON, JSON on one line, JSON values that are no
\* list, bytes that are no text
ForeignFiles ==
  {NoSuchFile, TextFile(<<>>), TextFile(<<"[", "\n", " ", "\"", "D", "H">>),
   TextFile(<<"D","H","L",",","U","P","S">>), TextFile(<<"[", "\"", "D", "H", "L", "\"", "]">>),
   TextFile(<<"[", "\"", "D", "H", "L", "\"", ",", "]">>),
   TextFile(<<"n","u","l","l">>), TextFile(<<"{","}">>), BinaryFile}

NoLoad == LoadRaises("not called")

LPersistInit ==
  /\ l_file \in ForeignFiles
  /\ l_carriers = <<>>
  /\ l_fresh = FALSE
  /\ l_pc = "start"
  /\ l_result = NoLoad

\* save_approved_carriers(carriers)
LSave ==
  /\ \E carriers \in SeqsUpTo(CarrierNames, MaxCarriers) :
       /\ l_carriers' = carriers
       /\ l_file' = save_approved_carriers(carriers)
  /\ l_fresh' = TRUE
  /\ l_pc' = "saved"
  /\ UNCHANGED l_result
  /\ UNCHANGED not_l_vars

\* load_approved_carriers()
LLoad ==
  /\ l_pc # "loaded"
  /\ l_result' = load_approved_carriers(l_file)
  /\ l_pc' = "loaded"
  /\ UNCHANGED <<l_file, l_carriers, l_fresh>>
  /\ UNCHANGED not_l_vars

\* the file is replaced or removed outside the program
LReplace ==
  /\ l_pc # "replaced"
  /\ \E file \in ForeignFiles : l_file' = file
  /\ l_fresh' = FALSE
  /\ l_pc' = "replaced"
  /\ UNCHANGED <<l_carriers, l_result>>
  /\ UNCHANGED not_l_vars

\* the carrier file is not in use
LIdle ==
  /\ l_file = NoSuchFile
  /\ l_carriers = <<>>
  /\ l_fresh = FALSE
  /\ l_pc = "idle"
  /\ l_result = NoLoad

(***************************************************************************)
(* The alert message on its own: a list of delayed shipments is drawn and  *)
(* rendered by one of the two format_multi_shipment_alert.                 *)
(***************************************************************************)
\* a delayed shipment as the tests give it
Shipment(shipment_id, status, eta, action) ==
  [key \in {"shipment_id", "status", "eta", "action"} |->
     IF key = "shipment_id" THEN shipment_id
     ELSE IF key = "status" THEN status
     ELSE IF key = "eta" THEN eta ELSE action]

Shipments ==
  {Shipment(id, status, <<"2","0","2","5","-","0","7","-","3","0">>, action) :
     id \in {<<"S","H","0","0","1">>, <<"S","H","0","0","2">>, <<"7">>},
     status \in {<<"D","e","l","a","y","e","d"," ","d","u","e"," ","t","o"," ","w","e","a","t","h","e","r">>, <<"D","e","l","a","y","e","d"," ","a","t"," ","c","u","s","t","o","m","s">>},
     action \in {<<"C","a","r","r","i","e","r"," ","r","e","r","o","u","t","i","n","g">>, <<>>}}

\* the display names the Shipment Alerts tab passes
TabDisplayNames ==
  [key \in {"shipmentid", "status", "expectedarrival"} |->
     IF key = "shipmentid" THEN <<"S","h","i","p","m","e","n","t"," ","I","D">>
     ELSE IF key = "status" THEN <<"S","t","a","t","u","s">> ELSE <<"E","x","p","e","c","t","e","d"," ","A","r","r","i","v","a","l">>]

FInit ==
  /\ f_site \in {"tab", "formatters"}
  /\ f_shipments \in SeqsUpTo(Shipments, MaxShipments)
  /\ f_names \in {EmptyMapping, TabDisplayNames}
  /\ f_site = "formatters" => f_names = EmptyMapping
  /\ f_pc = "input"
  /\ f_message = <<>>

\* format_multi_shipment_alert of the tab
FTabFormat ==
  /\ f_pc = "input"
  /\ f_site = "tab"
  /\ f_message' = format_multi_shipment_alert(f_shipments, f_names)
  /\ f_pc' = "rendered"
  /\ UNCHANGED <<f_site, f_shipments, f_names>>
  /\ UNCHANGED not_f_vars

\* format_multi_shipment_alert of utils/formatters.py
FFormattersFormat ==
  /\ f_pc = "input"
  /\ f_site = "formatters"
  /\ f_message' = formatters_format_multi_shipment_alert(f_shipments)
  /\ f_pc' = "rendered"
  /\ UNCHANGED <<f_site, f_shipments, f_names>>
  /\ UNCHANGED not_f_vars

\* no message is being rendered
FIdle ==
  /\ f_site = "idle"
  /\ f_shipments = <<>>
  /\ f_names = EmptyMapping
  /\ f_pc = "idle"
  /\ f_message = <<>>

(***************************************************************************)
(* The delayed shipments, as four places of the app count them:            *)
(* tabs/dashboard_tab.py, utils/dashboard_utils.py, tabs/llm_query_tab.py  *)
(* and tabs/shipment_alert_tab.py.                                         *)
(***************************************************************************)
\* what a place reports: the rows it counts as delayed, nothing at all, or
\* the exception it raises
Counted(rows) == [kind |-> "count", rows |-> rows, error |-> "none"]
NothingShown == [kind |-> "nothing", rows |-> {}, error |-> "none"]
CountRaised(error) == [kind |-> "raised", rows |-> {}, error |-> error]
NotRun == [kind |-> "unset", rows |-> {}, error |-> "none"]

\* series.str.lower().str.contains(word, na=False) on df[status_col]
DelayMask(df, status_col, word) ==
  LET data == Selection(df, status_col)
  IN IF HasStr(data) THEN Counted(ContainsMask(data, word))
     ELSE CountRaised("AttributeError")

\* show_dashboard_tab: the status column is the one ColumnMapper detects, the
\* word is 'delayed', and the metric is 0 without a status column
dashboard_delayed_shipments(df) ==
  IF IsEmpty(df) THEN NothingShown
  ELSE LET status_col == detect_column_mapping(df.columns)["status"]
       IN IF Truthy(status_col) THEN DelayMask(df, status_col, <<"d","e","l","a","y","e","d">>)
          ELSE Counted({})

\* find_column of utils/dashboard_utils.py: the first column whose lowercase
\* name is the lowercase target
find_column(df, target_name) ==
  LET at == {i \in 1..Len(df.columns) : Lower(df.columns[i]) = Lower(target_name)}
  IN IF at = {} THEN None ELSE df.columns[CHOOSE i \in at : \A j \in at : i <= j]

\* display_key_metrics: a warning and no metric without a 'status' column
display_key_metrics_delayed(df) ==
  LET status_col == find_column(df, <<"s","t","a","t","u","s">>)
  IN IF ~Truthy(status_col) THEN NothingShown
     ELSE DelayMask(df, status_col, <<"d","e","l","a","y">>)

\* the delayed_mask of the direct delayed/pending answer
direct_delayed_mask(df) ==
  LET status == get_column_data(df, status_patterns)
  IN IF ~status.found THEN NothingShown
     ELSE DelayMask(df, status.name, <<"d","e","l","a","y">>)

\* the status_patterns of shipment_alert_tab
alert_status_patterns ==
  <<<<"s","t","a","t","u","s">>, <<"s","h","i","p","m","e","n","t","_","s","t","a","t","u","s">>, <<"s","h","i","p","m","e","n","t"," ","s","t","a","t","u","s">>,
    <<"d","e","l","i","v","e","r","y","_","s","t","a","t","u","s">>, <<"d","e","l","i","v","e","r","y"," ","s","t","a","t","u","s">>>>

\* find_column_case_insensitive of tabs/shipment_alert_tab.py: the first
\* column that carries the first pattern found among the lowercase names
alert_find_column_case_insensitive(df, target_patterns) ==
  LET df_columns_lower == [i \in 1..Len(df.columns) |-> Lower(df.columns[i])]
      k == FirstVariant([j \in 1..Len(target_patterns) |-> Lower(target_patterns[j])],
                        df_columns_lower)
  IN IF k = 0 THEN None
     ELSE df.columns[IndexOf(df_columns_lower, Lower(target_patterns[k]))]

\* shipment_alert_tab: the rows of delayed_shipments
alert_delayed_shipments(df) ==
  IF IsEmpty(df) THEN NothingShown
  ELSE LET status_col == alert_find_column_case_insensitive(df, alert_status_patterns)
       IN IF ~Truthy(status_col) THEN NothingShown
          ELSE DelayMask(df, status_col, <<"d","e","l","a","y">>)

\* a manifest of shipments under one name of the status column
StatusTable(name, statuses) ==
  Table(<<<<"s","h","i","p","m","e","n","t","_","i","d">>, name>>,
        <<Column("object", [r \in 1..Len(statuses.values) |-> Str(<<"S","H">> \o NatText(r))]),
          statuses>>)

StatusTables ==
  {StatusTable(<<"s","t","a","t","u","s">>,
     Column("object", Texts(<<<<"D","e","l","a","y","e","d">>, <<"I","n"," ","T","r","a","n","s","i","t">>, <<"d","e","l","a","y","e","d"," ","-"," ","c","u","s","t","o","m","s">>>>))),
   StatusTable(<<"S","t","a","t","u","s">>,
     Column("object", Texts(<<<<"D","e","l","a","y"," ","a","t"," ","p","o","r","t">>, <<"D","e","l","a","y","e","d">>, <<"D","e","l","i","v","e","r","e","d">>>>))),
   StatusTable(<<"S","t","a","t","u","s">>, Column("object", <<Str(<<"D","E","L","A","Y","E","D">>), NaN>>)),
   StatusTable(<<"s","t","a","t","u","s">>, Column("object", Texts(<<<<"D","e","l","i","v","e","r","e","d">>, <<"P","e","n","d","i","n","g">>>>))),
   StatusTable(<<"s","t","a","t","u","s">>, Column("int64", <<Num(1), Num(2)>>)),
   StatusTable(<<"s","t","a","t","u","s">>, Column("object", <<>>)),
   StatusTable(<<"S","h","i","p","m","e","n","t"," ","S","t","a","t","u","s">>, Column("object", Texts(<<<<"D","e","l","a","y","e","d">>, <<"O","n"," ","t","i","m","e">>>>))),
   StatusTable(<<"s","h","i","p","_","s","t","a","t","u","s">>, Column("object", Texts(<<<<"D","e","l","a","y","e","d">>, <<"O","n"," ","t","i","m","e">>>>))),
   StatusTable(<<"c","a","r","r","i","e","r">>, Column("object", Texts(<<<<"D","H","L">>, <<"U","P","S">>>>)))}

DInit ==
  /\ d_df \in StatusTables
  /\ d_dashboard = NotRun
  /\ d_metrics = NotRun
  /\ d_direct = NotRun
  /\ d_alert = NotRun

\* the Dashboard tab is shown
DDashboard ==
  /\ d_dashboard = NotRun
  /\ d_dashboard' = dashboard_delayed_shipments(d_df)
  /\ UNCHANGED <<d_df, d_metrics, d_direct, d_alert>>
  /\ UNCHANGED not_d_vars

\* display_key_metrics is called
DKeyMetrics ==
  /\ d_metrics = NotRun
  /\ d_metrics' = display_key_metrics_delayed(d_df)
  /\ UNCHANGED <<d_df, d_dashboard, d_direct, d_alert>>
  /\ UNCHANGED not_d_vars

\* the AI tab answers a question about the delayed shipments directly
DDirectAnswer ==
  /\ d_direct = NotRun
  /\ d_direct' = direct_delayed_mask(d_df)
  /\ UNCHANGED <<d_df, d_dashboard, d_metrics, d_alert>>
  /\ UNCHANGED not_d_vars

\* the Shipment Alerts tab is shown
DAlertTab ==
  /\ d_alert = NotRun
  /\ d_alert' = alert_delayed_shipments(d_df)
  /\ UNCHANGED <<d_df, d_dashboard, d_metrics, d_direct>>
  /\ UNCHANGED not_d_vars

\* no manifest is being counted
DIdle ==
  /\ d_df = EmptyTable
  /\ d_dashboard = NotRun
  /\ d_metrics = NotRun
  /\ d_direct = NotRun
  /\ d_alert = NotRun

(***************************************************************************)
(* app.py: the four actions that change the approved-carrier list.         *)
(***************************************************************************)
\* the characters of code points 32 to 126, in the order of their code points
AsciiChars ==
  <<" ", "!", "\"", "#", "$", "%", "&", "'", "(", ")", "*", "+", ",", "-", ".", "/",
    "0", "1", "2", "3", "4", "5", "6", "7", "8", "9", ":", ";", "<", "=", ">", "?",
    "@", "A", "B", "C", "D", "E", "F", "G", "H", "I", "J", "K", "L", "M", "N", "O",
    "P", "Q", "R", "S", "T", "U", "V", "W", "X", "Y", "Z", "[", "\\", "]", "^", "_",
    "U+0060", "a", "b", "c", "d", "e", "f", "g", "h", "i", "j", "k", "l", "m", "n", "o",
    "p", "q", "r", "s", "t", "u", "v", "w", "x", "y", "z", "{", "|", "}", "~">>

\* ord(ch)
Ord(ch) == 31 + IndexOf(AsciiChars, ch)

\* a < b of two str: the code points of the first position where they differ
\* decide, and a proper prefix is smaller
RECURSIVE StrLess(_, _)
StrLess(a, b) ==
  IF b = <<>> THEN FALSE
  ELSE IF a = <<>> THEN TRUE
  ELSE IF Head(a) = Head(b) THEN StrLess(Tail(a), Tail(b))
  ELSE Ord(Head(a)) < Ord(Head(b))

\* sorted(list(set(names)))
RECURSIVE SortedSet(_)
SortedSet(names) ==
  IF names = {} THEN <<>>
  ELSE LET least == CHOOSE n \in names : \A other \in names \ {n} : StrLess(n, other)
       IN <<least>> \o SortedSet(names \ {least})

\* text.splitlines() of a text whose only line boundary is the newline
RECURSIVE SplitLines(_)
SplitLines(text) ==
  IF text = <<>> THEN <<>>
  ELSE LET at == {i \in 1..Len(text) : text[i] = "\n"}
       IN IF at = {} THEN <<text>>
          ELSE LET first == CHOOSE i \in at : \A j \in at : i <= j
               IN <<SubSeq(text, 1, first - 1)>>
                    \o SplitLines(SubSeq(text, first + 1, Len(text)))

\* "\n".join(names)
RECURSIVE JoinLines(_)
JoinLines(names) ==
  IF names = <<>> THEN <<>>
  ELSE IF Len(names) = 1 THEN names[1]
  ELSE names[1] \o <<"\n">> \o JoinLines(Tail(names))

\* Save Carriers: the stripped non-blank lines of the text area, as a sorted
\* list without duplicates
save_carriers(approved_carriers_text) ==
  LET lines == SplitLines(approved_carriers_text)
      new_carriers == {Strip(lines[i]) : i \in {j \in 1..Len(lines) : Strip(lines[j]) # <<>>}}
  IN SortedSet(new_carriers)

\* Reset to Default
default_carriers == <<<<"F","e","d","E","x">>, <<"U","P","S">>, <<"D","H","L">>, <<"U","S","P","S">>>>

\* Add to Approved List: the list extended with str(c) of every unapproved
\* carrier, sorted without duplicates
add_to_approved_list(approved, unapproved) ==
  SortedSet(Range(approved) \cup Range(unapproved))

\* a row of the data editor with a name, and a row without the column
EditorRow(name) == [key \in {"Carrier Name"} |-> name]
RowWithoutName == [key \in {} |-> <<>>]

\* Save Approved Carriers List: the names of the rows whose name is not blank,
\* as they stand, sorted without duplicates
save_approved_carriers_list(edited_carriers) ==
  SortedSet({edited_carriers[i]["Carrier Name"] :
               i \in {j \in 1..Len(edited_carriers) :
                        /\ "Carrier Name" \in DOMAIN edited_carriers[j]
                        /\ Strip(edited_carriers[j]["Carrier Name"]) # <<>>}})

\* the lists load_approved_carriers returns at the start of the session
LoadedLists == {<<>>, <<<<"D","H","L">>>>, <<<<"D","H","L">>, <<"U","P","S">>>>}

\* texts typed into the text area
CarrierTexts ==
  {<<>>, <<"U","P","S">> \o <<"\n">> \o <<"D","H","L">>,
   <<" ","d","h","l"," ">> \o <<"\n", "\n">> \o <<"D","H","L">> \o <<"\n">> \o <<"D","H","L">> \o <<"\n">>,
   <<" "," ">> \o <<"\n">> \o <<"X","P","O">>}

\* the manifests of the session: one has a carrier cell that holds a blank
CarrierManifests ==
  {Table(<<<<"c","a","r","r","i","e","r">>>>, <<Column("object", carriers)>>) :
     carriers \in {<<Str(<<"d","h","l">>), Str(<<"X","P","O">>), Str(<<"d","h","l">>)>>,
                   <<Str(<<"U","P","S">>), NaN>>,
                   <<Str(<<"X","P","O">>), Str(<<" ">>)>>}}

\* rows the data editor can hold for the list: the rows of the list, one of
\* them removed, or a row added
EditedLists(approved) ==
  LET rows == [i \in 1..Len(approved) |-> EditorRow(approved[i])]
  IN {rows, Tail(IF rows = <<>> THEN <<RowWithoutName>> ELSE rows)}
       \cup {Append(rows, row) : row \in {EditorRow(<<" ","D","H","L">>), EditorRow(<<"A","r","a","m","e","x">>),
                                          EditorRow(<<" "," ">>), EditorRow(<<>>),
                                          RowWithoutName}}

AInit ==
  /\ a_approved \in LoadedLists
  /\ a_file = IF a_approved = <<>> THEN NoSuchFile ELSE save_approved_carriers(a_approved)
  /\ a_pc = "start"

\* the button Save Carriers of the sidebar; the text area holds the list, one
\* name per line, until it is edited
SaveCarriers ==
  /\ \E approved_carriers_text \in CarrierTexts \cup {JoinLines(a_approved)} :
       a_approved' = save_carriers(approved_carriers_text)
  /\ a_file' = save_approved_carriers(a_approved')
  /\ a_pc' = "Save Carriers"
  /\ UNCHANGED not_a_vars

\* the button Reset to Default of the sidebar
ResetToDefault ==
  /\ a_approved' = default_carriers
  /\ a_file' = save_approved_carriers(a_approved')
  /\ a_pc' = "Reset to Default"
  /\ UNCHANGED not_a_vars

\* the button Add ... to Approved List, shown when the manifest has carriers
\* that are not approved
AddToApprovedList ==
  /\ \E df \in CarrierManifests :
       \E unapproved \in {unapproved_carriers(df, <<"c","a","r","r","i","e","r">>, a_approved)} :
         /\ unapproved # <<>>
         /\ a_approved' = add_to_approved_list(a_approved, unapproved)
  /\ a_file' = save_approved_carriers(a_approved')
  /\ a_pc' = "Add to Approved List"
  /\ UNCHANGED not_a_vars

\* the button Save Approved Carriers List under the data editor
SaveApprovedCarriersList ==
  /\ \E edited_carriers \in EditedLists(a_approved) :
       a_approved' = save_approved_carriers_list(edited_carriers)
  /\ a_file' = save_approved_carriers(a_approved')
  /\ a_pc' = "Save Approved Carriers List"
  /\ UNCHANGED not_a_vars

\* no session manages the list
AIdle ==
  /\ a_approved = <<>>
  /\ a_file = NoSuchFile
  /\ a_pc = "idle"

(***************************************************************************)
(* The specifications.                                                     *)
(***************************************************************************)
InitResolve == RInit /\ CIdle /\ QIdle /\ SIdle /\ GIdle /\ KIdle /\ MIdle /\ LIdle /\ FIdle /\ DIdle /\ AIdle

RNext ==
  \/ RNormalize
  \/ RDetect
  \/ RValidate
  \/ RMapperValidate

SpecResolve == InitResolve /\ [][RNext]_vars

InitClean == CInit /\ RIdle /\ QIdle /\ SIdle /\ GIdle /\ KIdle /\ MIdle /\ LIdle /\ FIdle /\ DIdle /\ AIdle

CNext ==
  \/ CClean
  \/ CCleanAgain

SpecClean == InitClean /\ [][CNext]_vars

InitQuery == QInit /\ RIdle /\ CIdle /\ SIdle /\ GIdle /\ KIdle /\ MIdle /\ LIdle /\ FIdle /\ DIdle /\ AIdle

QNext == QAnalyze

SpecQuery == InitQuery /\ [][QNext]_vars

InitComply == KInit /\ RIdle /\ CIdle /\ QIdle /\ SIdle /\ GIdle /\ MIdle /\ LIdle /\ FIdle /\ DIdle /\ AIdle

KNext ==
  \/ KCarrierCheckTab
  \/ KExcelReport
  \/ KCheckManifest

SpecComply == InitComply /\ [][KNext]_vars

InitSuggest == MInit /\ RIdle /\ CIdle /\ QIdle /\ SIdle /\ GIdle /\ KIdle /\ LIdle /\ FIdle /\ DIdle /\ AIdle

MNext ==
  \/ MConstruct
  \/ MUpdateMapping
  \/ MSuggest

SpecSuggest == InitSuggest /\ [][MNext]_vars

InitGeo == GInit /\ RIdle /\ CIdle /\ QIdle /\ SIdle /\ KIdle /\ MIdle /\ LIdle /\ FIdle /\ DIdle /\ AIdle

GNext ==
  \/ GBegin
  \/ GTake
  \/ GGeocode
  \/ GSleep
  \/ GApply

SpecGeo == InitGeo /\ [][GNext]_vars

InitPersist == LPersistInit /\ RIdle /\ CIdle /\ QIdle /\ SIdle /\ GIdle /\ KIdle /\ MIdle /\ FIdle /\ DIdle /\ AIdle

LPersistNext ==
  \/ LSave
  \/ LLoad
  \/ LReplace

SpecPersist == InitPersist /\ [][LPersistNext]_vars

InitAlert == FInit /\ RIdle /\ CIdle /\ QIdle /\ SIdle /\ GIdle /\ KIdle /\ MIdle /\ LIdle /\ DIdle /\ AIdle

FNext ==
  \/ FTabFormat
  \/ FFormattersFormat

SpecAlert == InitAlert /\ [][FNext]_vars

InitDelayed == DInit /\ RIdle /\ CIdle /\ QIdle /\ SIdle /\ GIdle /\ KIdle /\ MIdle /\ LIdle /\ FIdle /\ AIdle

DNext ==
  \/ DDashboard
  \/ DKeyMetrics
  \/ DDirectAnswer
  \/ DAlertTab

SpecDelayed == InitDelayed /\ [][DNext]_vars

InitCarriers ==
  AInit /\ RIdle /\ CIdle /\ QIdle /\ SIdle /\ GIdle /\ KIdle /\ MIdle /\ LIdle /\ FIdle /\ DIdle

ANext ==
  \/ SaveCarriers
  \/ ResetToDefault
  \/ AddToApprovedList
  \/ SaveApprovedCarriersList

SpecCarriers == InitCarriers /\ [][ANext]_vars

Init == SInit /\ RIdle /\ CIdle /\ QIdle /\ GIdle /\ KIdle /\ MIdle /\ LIdle /\ FIdle /\ DIdle /\ AIdle

Next ==
  \/ Upload
  \/ RemoveFile
  \/ ClearData
  \/ Rerun
  \/ ApplyColumnMapping
  \/ GetAnswer
  \/ ClearHistory

Spec == Init /\ [][Next]_vars

\* a session in which the manifests with the other header rows are uploaded
\* and mapped, without the chat
NextHeaders ==
  \/ UploadHeaders
  \/ RemoveFile
  \/ ClearData
  \/ Rerun
  \/ ApplyColumnMapping

SpecHeaders == Init /\ [][NextHeaders]_vars

(***************************************************************************)
(* Properties of the resolver.                                             *)
(***************************************************************************)
\* a name with its letters lowercased and its spaces, underscores and hyphens
\* dropped: two names with the same Squash differ only in case or separators
Squash(s) == SelectSeq(Lower(s), LAMBDA c : c \notin {" ", "_", "-"})

VariantsOf(f) == Range(STANDARD_COLUMNS[f])

C20_EarliestVariantWins ==
  r_pc = "mapped" =>
    /\ \A f \in Fields :
         LET possible_names == STANDARD_COLUMNS[f]
             matching == {k \in DOMAIN possible_names :
                            \E c \in Range(r_cols) : Lower(c) = possible_names[k]}
         IN IF matching = {} THEN r_mapping[f] = None
            ELSE /\ r_mapping[f] \in Range(r_cols)
                 /\ \E k \in matching : /\ \A h \in matching : k <= h
                                        /\ Lower(r_mapping[f]) = possible_names[k]
    /\ (r_cols \in {<<<<"c","a","r","r","i","e","r","_","n","a","m","e">>, <<"C","a","r","r","i","e","r">>>>, <<<<"C","a","r","r","i","e","r">>, <<"c","a","r","r","i","e","r","_","n","a","m","e">>>>}
          => r_mapping["carrier"] = <<"C","a","r","r","i","e","r">>)

\* the resolver has run on a header row whose first column matches the second
\* variant of carrier and whose second column matches the first variant
C20_Witness ==
  /\ r_pc = "mapped"
  /\ r_cols = <<<<"c","a","r","r","i","e","r","_","n","a","m","e">>, <<"C","a","r","r","i","e","r">>>>
  /\ r_mapping["carrier"] = <<"C","a","r","r","i","e","r">>
  /\ r_mapping["origin"] = None

\* the positions of the required fields that have no mapped column
UnmappedAt == {i \in 1..Len(r_required) : Get(r_mapping, r_required[i]) = None}

\* the j-th smallest element of a set of positions
Nth(S, j) == CHOOSE i \in S : Cardinality({h \in S : h < i}) = j - 1

\* C9: validate_required_columns (the function and the ColumnMapper method)
\* returns as missing exactly the required fields without a mapped column, in
\* the order they were required, and is_valid is true exactly when missing is
\* empty; the default required fields on a header row holding Carrier, Origin
\* and Destination in any letter case give (true, []).
C9_ValidateRequired ==
  r_pc \in {"validated_function", "validated_method"} =>
    /\ Len(r_valid.missing) = Cardinality(UnmappedAt)
    /\ \A j \in 1..Len(r_valid.missing) :
         r_valid.missing[j] = r_required[Nth(UnmappedAt, j)]
    /\ r_valid.is_valid <=> r_valid.missing = <<>>
    /\ (/\ r_required = DefaultRequired
        /\ {<<"c","a","r","r","i","e","r">>, <<"o","r","i","g","i","n">>, <<"d","e","s","t","i","n","a","t","i","o","n">>} \subseteq {Lower(c) : c \in Range(r_cols)})
         => r_valid = [is_valid |-> TRUE, missing |-> <<>>]

\* a validation of two required fields has reported both as missing, in order
C9_Witness ==
  /\ r_pc \in {"validated_function", "validated_method"}
  /\ Len(r_required) = 2
  /\ r_required[1] # r_required[2]
  /\ r_valid.missing = r_required
  /\ ~r_valid.is_valid

(***************************************************************************)
(* Properties of the direct analysis.                                      *)
(***************************************************************************)
\* the handlers in the order the claim lists their predicates
HandlerOrder ==
  <<"total", "carrier", "status", "cost", "origin", "destination", "weight",
    "priority", "today">>

PhrasesOf(h) ==
  CASE h = "total" -> total_phrases [] h = "carrier" -> carrier_phrases
    [] h = "status" -> status_phrases [] h = "cost" -> cost_phrases
    [] h = "origin" -> origin_phrases [] h = "destination" -> destination_phrases
    [] h = "weight" -> weight_phrases [] h = "priority" -> priority_phrases
    [] h = "today" -> today_phrases

\* the keywords of the handler's predicate occur in the lowercased question
Matches(h, question) == \E p \in Range(PhrasesOf(h)) : Contains(Lower(question), p)

Matching(question) == {k \in 1..Len(HandlerOrder) : Matches(HandlerOrder[k], question)}

\* C1: the outcome comes from the first handler, in the fixed order total,
\* carrier, status, cost, origin, destination, weight, priority, delivery
\* today, whose keywords occur in the lowercased question; when no predicate
\* matches the outcome is None.
C1_OrderedDispatch ==
  q_pc = "answered" =>
    IF Matching(q_question) = {}
    THEN q_result = Absent
    ELSE /\ q_result.kind # "none"
         /\ \E k \in Matching(q_question) :
              /\ \A j \in Matching(q_question) : k <= j
              /\ q_result.handler = HandlerOrder[k]

\* a question matching the origin and the weight predicate was answered by
\* the origin handler
C1_Witness ==
  /\ q_pc = "answered"
  /\ Matches("origin", q_question) /\ Matches("weight", q_question)
  /\ q_result.kind = "answer"
  /\ q_result.handler = "origin"

\* C2: a question holding a delivery-today phrase and a total/count phrase is
\* answered by the delivery-today handler, not by the total/count handler.
C2_TodayBeforeTotal ==
  (/\ q_pc = "answered"
   /\ Matches("today", q_question)
   /\ Matches("total", q_question))
    => q_result.handler = "today"

\* the column patterns of the column a handler needs, and the words its
\* diagnostic names the field with
NeededPatterns(h) ==
  CASE h \in {"total", "status"} -> status_patterns [] h = "carrier" -> carrier_patterns
    [] h = "cost" -> cost_patterns [] h = "origin" -> origin_patterns
    [] h = "destination" -> destination_patterns [] h = "weight" -> weight_patterns
    [] h = "priority" -> priority_patterns [] h = "today" -> delivery_date_patterns

FieldWords(h) ==
  CASE h \in {"total", "status"} -> <<"S","t","a","t","u","s">> [] h = "carrier" -> <<"C","a","r","r","i","e","r">>
    [] h = "cost" -> <<"C","o","s","t">> [] h = "origin" -> <<"O","r","i","g","i","n">>
    [] h = "destination" -> <<"D","e","s","t","i","n","a","t","i","o","n">> [] h = "weight" -> <<"W","e","i","g","h","t">>
    [] h = "priority" -> <<"P","r","i","o","r","i","t","y">> [] h = "today" -> <<"D","e","l","i","v","e","r","y"," ","d","a","t","e">>

\* no column of the table has, lowercased, one of the patterns as its name
Unresolved(df, patterns) ==
  \A c \in Range(df.columns) : \A p \in Range(patterns) : Lower(c) # Lower(p)

\* the handler selected for the question needs a column: every handler does,
\* the total handler only for a question about delayed or pending shipments
NeedsColumn(h, question) ==
  h = "total" =>
    \/ Contains(Lower(question), <<"d","e","l","a","y","e","d">>)
    \/ Contains(Lower(question), <<"p","e","n","d","i","n","g">>)

\* C3: when the column the selected handler needs cannot be resolved in the
\* table, the outcome is a diagnostic text that names the missing field and
\* lists every column name of the table; it is not an exception.
C3_MissingColumnDiagnostic ==
  q_pc = "answered" =>
    \A k \in Matching(q_question) :
      (/\ \A j \in Matching(q_question) : k <= j
       /\ NeedsColumn(HandlerOrder[k], q_question)
       /\ Unresolved(q_df, NeededPatterns(HandlerOrder[k])))
        => /\ q_result.kind = "diagnostic"
           /\ Contains(q_result.text, FieldWords(HandlerOrder[k]))
           /\ \A c \in Range(q_df.columns) : Contains(q_result.text, c)
           /\ Contains(q_result.text, JoinNames(q_df.columns))

\* the weight handler was selected on a table without a weight column and
\* returned its diagnostic
C3_Witness ==
  /\ q_pc = "answered"
  /\ Unresolved(q_df, weight_patterns)
  /\ Len(q_df.columns) >= 2
  /\ q_result.kind = "diagnostic"
  /\ q_result.handler = "weight"

\* C11: analyze_question_directly never ends with an error: on a table with at
\* least one row the outcome of every question is a string (an answer or a
\* diagnostic) or absent, never a raised exception.
C11_NeverRaises ==
  (q_pc = "answered" /\ NumRows(q_df) >= 1)
    => q_result.kind \in {"answer", "diagnostic", "none"}

\* the non-null cells of the column the patterns resolve to
NonNull(df, patterns) ==
  LET data == get_column_data(df, patterns).data
  IN {r \in DOMAIN data.values : ~IsNull(data.values[r])}

\* C17: the cost handler computes total, average, minimum and maximum over the
\* non-null values of the resolved numeric cost column and reports the number
\* of rows of the table as count: for the costs 25.50, 45.20 and null the
\* total is 70.70, the average 35.35, the minimum 25.50, the maximum 45.20 and
\* the count 3.
C17_CostStatistics ==
  (q_pc = "answered" /\ q_result.handler = "cost" /\ q_result.kind = "answer") =>
    LET cost == get_column_data(q_df, cost_patterns).data
        rows == NonNull(q_df, cost_patterns)
        total == SumSeq([k \in 1..Len(cost.values) |->
                           IF k \in rows THEN cost.values[k].v ELSE 0])
        d == q_result.detail
    IN /\ d.count = NumRows(q_df)
       /\ d.total = Num(total)
       /\ rows # {} =>
            /\ d.average.t = "num"
            /\ 2 * d.average.v * Cardinality(rows) - 2 * total <= Cardinality(rows)
            /\ 2 * total - 2 * d.average.v * Cardinality(rows) <= Cardinality(rows)
            /\ \E r \in rows : d.min = cost.values[r]
            /\ \E r \in rows : d.max = cost.values[r]
            /\ \A r \in rows : d.min.v <= cost.values[r].v /\ cost.values[r].v <= d.max.v
       /\ cost.values = <<Num(2550), Num(4520), NaN>> =>
            d = [total |-> Num(7070), average |-> Num(3535), min |-> Num(2550),
                 max |-> Num(4520), count |-> 3]

\* the cost handler has answered on the costs 25.50, 45.20 and null
C17_Witness ==
  /\ q_pc = "answered"
  /\ q_result.handler = "cost"
  /\ q_result.kind = "answer"
  /\ get_column_data(q_df, cost_patterns).data.values = <<Num(2550), Num(4520), NaN>>
  /\ q_result.detail.count = 3

\* C18: the carrier, status, origin and destination handlers list every
\* distinct non-null value of the resolved column once, with its count and with
\* the percentage count / total rows * 100 to one decimal, so that the counts
\* add up to the number of non-null rows: of the statuses Delivered, Delayed,
\* In Transit, Delayed the entry of Delayed is 2 (50.0%).
C18_BreakdownCounts ==
  (/\ q_pc = "answered"
   /\ q_result.kind = "answer"
   /\ q_result.handler \in {"carrier", "status", "origin", "destination"}) =>
    LET data == get_column_data(q_df, NeededPatterns(q_result.handler)).data
        rows == NonNull(q_df, NeededPatterns(q_result.handler))
        listed == q_result.detail.breakdown
        total == NumRows(q_df)
    IN /\ {listed[k].value : k \in DOMAIN listed} = {data.values[r] : r \in rows}
       /\ \A k, l \in DOMAIN listed : listed[k].value = listed[l].value => k = l
       /\ \A k \in DOMAIN listed :
            /\ listed[k].count = Cardinality({r \in rows : data.values[r] = listed[k].value})
            /\ 2 * listed[k].percentage * total - 2000 * listed[k].count <= total
            /\ 2000 * listed[k].count - 2 * listed[k].percentage * total <= total
       /\ SumSeq([k \in DOMAIN listed |-> listed[k].count]) = Cardinality(rows)
       /\ data.values = Texts(<<<<"D","e","l","i","v","e","r","e","d">>, <<"D","e","l","a","y","e","d">>, <<"I","n"," ","T","r","a","n","s","i","t">>, <<"D","e","l","a","y","e","d">>>>) =>
            \E k \in DOMAIN listed :
              listed[k] = [value |-> Str(<<"D","e","l","a","y","e","d">>), count |-> 2, percentage |-> 500]

\* the status handler has answered on the statuses Delivered, Delayed,
\* In Transit, Delayed
C18_Witness ==
  /\ q_pc = "answered"
  /\ q_result.kind = "answer"
  /\ q_result.handler = "status"
  /\ NumRows(q_df) = 4
  /\ Len(q_result.detail.breakdown) = 3
  /\ q_result.detail.breakdown[1].count = 2

(***************************************************************************)
(* Properties of the data cleaner.                                         *)
(***************************************************************************)
\* C10: clean_column_data is idempotent: whenever clean(T, M) succeeds,
\* clean(clean(T, M), M) succeeds with the same table.
C10_CleanIdempotent ==
  c_pc = "twice" => c_twice = c_once

(***************************************************************************)
(* Properties of the session.                                              *)
(***************************************************************************)
Last(s) == s[Len(s)]

\* C4: a run of the script calls answer_question only for a question on which
\* analyze_question_directly returned None on the session table; a run that
\* appends to the chat history a question the direct analysis answered
\* appends that answer, stores it as the latest answer and calls no LLM, and
\* one that appends a question it did not answer has called the LLM for it.
C4_LlmOnlyWhenAbsent ==
  [][/\ llm_log' # llm_log =>
          /\ Len(llm_log') = Len(llm_log) + 1
          /\ analyze_question_directly(s_df', Last(llm_log').question, Today) = Absent
     /\ chat_history' # chat_history /\ chat_history' # <<>> =>
          LET entry == Last(chat_history')
              direct == analyze_question_directly(s_df', entry.question, Today)
          IN IF direct = Absent
             THEN /\ llm_log' = Append(llm_log, LlmCall(entry.question, s_retriever'))
                  /\ ask_notice' = "ai"
             ELSE /\ entry.answer = direct
                  /\ latest_answer' = direct
                  /\ llm_log' = llm_log
                  /\ ask_notice' = "direct"]_vars

\* Get Answer has answered a question by the direct analysis: the answer is the
\* latest answer and the last entry of the chat history, and no LLM call was made
C4_Witness ==
  /\ ask_notice = "direct"
  /\ latest_answer.kind = "answer"
  /\ latest_answer.handler = "carrier"
  /\ chat_history # <<>>
  /\ Last(chat_history).answer = latest_answer
  /\ llm_log = <<>>

\* the positions of the columns of a table whose lowercase name is the name
Named(t, name) == {i \in 1..Len(t.columns) : Lower(t.columns[i]) = name}

ContextSection(context, title) ==
  {k \in DOMAIN context.sections : context.sections[k].title = title}

\* C12: the context handed to the LLM contains the full carrier breakdown, the
\* full status breakdown with the delayed count, and the cost statistics
\* whenever the session table has a carrier, a status or a numeric cost column.
C12_ContextCoversManifest ==
  \A c \in DOMAIN llm_log :
    LET call == llm_log[c]
        df == call.table
        n == NumRows(df)
    IN /\ ~call.context.raised
       /\ \A i \in Named(df, <<"c","a","r","r","i","e","r">>) :
            \E k \in ContextSection(call.context, "CARRIER BREAKDOWN") :
              call.context.sections[k].lines = to_dict(value_counts(df.data[i] @@ [frame |-> FALSE], n))
       /\ \A i \in Named(df, <<"s","t","a","t","u","s">>) :
            \E k \in ContextSection(call.context, "STATUS BREAKDOWN") :
              /\ call.context.sections[k].lines = to_dict(value_counts(df.data[i] @@ [frame |-> FALSE], n))
              /\ LET delayed == Cardinality(ContainsMask(df.data[i], <<"d","e","l","a","y">>))
                 IN delayed > 0 => call.context.sections[k].delayed[1] = delayed
       /\ \A i \in Named(df, <<"c","o","s","t">>) :
            df.data[i].dtype \in {"int64", "float64"} =>
              \E k \in ContextSection(call.context, "COST ANALYSIS") :
                LET st == Statistics(df.data[i])
                IN /\ call.context.sections[k].total = st.sum
                   /\ call.context.sections[k].average = st.mean
                   /\ call.context.sections[k].min = st.min
                   /\ call.context.sections[k].max = st.max

\* C5: the session's column mapping stays what it was on every run of the
\* script that is neither a new upload nor Clear Data nor Apply Column Mapping
\* itself, so a mapping the user applied is still there after the rerun that
\* follows, also while the uploader holds the same file.
C5_ManualMappingPersists ==
  [][(Rerun \/ RemoveFile \/ GetAnswer \/ ClearHistory)
       => s_column_mapping' = s_column_mapping]_vars

\* C6: no two standard fields of the session column mapping map to the same
\* actual column.
C6_MappingInjective ==
  \A f, g \in DOMAIN s_column_mapping :
    (f # g /\ s_column_mapping[f] # None /\ s_column_mapping[g] # None)
      => s_column_mapping[f] # s_column_mapping[g]

\* C7: after a run whose upload block failed the session table and the
\* original table are None, data_processed is false and the session column
\* mapping maps no field.
C7_FailedUploadResets ==
  upload_notice = "error" =>
    /\ IsNone(s_df)
    /\ IsNone(s_df_original)
    /\ ~s_data_processed
    /\ \A f \in DOMAIN s_column_mapping : s_column_mapping[f] = None

(***************************************************************************)
(* Properties of the geocoding batch.                                      *)
(***************************************************************************)
\* the events of one kind in the trace of a city
EventsOf(city, e) ==
  IF city \in DOMAIN g_trace THEN {k \in DOMAIN g_trace[city] : g_trace[city][k].e = e}
  ELSE {}

Requests(city) == Cardinality(EventsOf(city, "request"))

\* the turns of the loop that are over for a city: a turn ends with the cache
\* hit or with the pause
Turns(city) == Cardinality(EventsOf(city, "hit")) + Cardinality(EventsOf(city, "sleep"))

Cached(city) == get_coordinates_from_cache(city).found

\* C13: coordinate resolution looks the city up in the static cache first and
\* calls the HTTP service only on a miss: a cached city never causes a request,
\* in add_geographic_coordinates and in the Generate Geographic Coordinates
\* action.
C13_CacheBeforeService ==
  \A city \in DOMAIN g_trace :
    /\ Cached(city) => Requests(city) = 0
    /\ Requests(city) > 0 => g_trace[city][1].e = "miss"

\* C14: requests are serial and each is followed by the pause; every unique
\* city has at most one turn and at most one request per batch, the requests
\* are at most as many as the unique uncached cities, and the batch ends after
\* every unique city had its turn once.
C14_SerialBoundedRequests ==
  /\ [](/\ \A city \in DOMAIN g_trace : Requests(city) <= 1 /\ Turns(city) <= 1
        /\ Cardinality({city \in DOMAIN g_trace : Requests(city) > 0})
             <= Cardinality({city \in g_cities : ~Cached(city)})
        /\ (g_pc = "done" /\ g_out.added) =>
              \A city \in g_cities : Turns(city) = 1)
  /\ [][/\ (\E city \in DOMAIN g_trace : Requests(city)' > Requests(city)) =>
             (g_pc = "geocode" /\ g_pc' = "sleep")
        /\ g_pc = "sleep" =>
             /\ g_pc' = "loop"
             /\ Turns(g_city)' = Turns(g_city) + 1
             /\ \A city \in DOMAIN g_trace : Requests(city)' = Requests(city)]_vars

\* the coordinates the claim gives a city: those of the cache, else those of a
\* response with status 200 and a non-empty result list, else none
Resolved(city) ==
  IF Cached(city) THEN get_coordinates_from_cache(city)
  ELSE LET good == {k \in EventsOf(city, "request") :
                      LET response == g_trace[city][k].response
                      IN /\ ~response.raises
                         /\ response.status_code = 200
                         /\ response.data # <<>>}
       IN IF good = {} THEN NoCoords
          ELSE g_trace[city][CHOOSE k \in good : TRUE].response.data[1]

CellResolved(cell) == IF IsNull(cell) THEN NoCoords ELSE Resolved(cell.v)

\* C15: in add_geographic_coordinates a non-200 status, an empty result list or
\* an exception gives the city no coordinates without aborting the batch: every
\* city still has its turn, the rows of an unresolved city have null
\* coordinates and the rows of a resolved city have that city's coordinates.
C15_FailuresYieldNoCoordinates ==
  (g_mode = "utils" /\ g_pc = "done" /\ g_out.added) =>
    /\ \A city \in g_cities : Turns(city) = 1
    /\ \A r \in 1..NumRows(g_df) :
         /\ g_out.rows[r].origin = CellResolved(g_df.data[1].values[r])
         /\ g_out.rows[r].dest = CellResolved(g_df.data[2].values[r])

\* add_geographic_coordinates is over after a request that raised, with an
\* origin that has coordinates and a destination that has none
C15_Witness ==
  /\ g_mode = "utils"
  /\ g_pc = "done"
  /\ g_out.added
  /\ \E city \in g_cities : \E k \in EventsOf(city, "request") :
       g_trace[city][k].response.raises
  /\ \E city \in g_cities : \E k \in EventsOf(city, "request") :
       g_trace[city][k].response.status_code = 503
  /\ \E r \in 1..NumRows(g_df) : g_out.rows[r].origin.found /\ ~g_out.rows[r].dest.found

(***************************************************************************)
(* Properties of the carrier compliance check.                             *)
(***************************************************************************)
\* the non-null carriers of the manifest column that was checked
ManifestCarriers ==
  LET at == {i \in DOMAIN k_df.columns :
               \/ k_site = "function" /\ k_df.columns[i] = <<"c","a","r","r","i","e","r">>
               \/ k_site = "tab" /\ k_df.columns[i] = TabCarrierColumn(k_df, k_mapping)
               \/ k_site = "report" /\ k_df.columns[i] = ReportCarrierColumn(k_mapping)}
  IN {cell.v : cell \in {c \in UNION {Range(k_df.data[i].values) : i \in at} : ~IsNull(c)}}

\* what the site reports for a manifest carrier it finds unapproved
ReportedAs(carrier) == IF k_site = "function" THEN Lower(Strip(carrier)) ELSE carrier

\* C16: the compliance check is case-insensitive: a manifest carrier is
\* reported as unapproved exactly when no approved carrier equals it ignoring
\* letter case, in the Carrier Check tab, in the compliance notes of the Excel
\* report and in check_manifest_compliance.
C16_CaseInsensitiveCompliance ==
  (k_pc = "checked" /\ k_result.checked) =>
    \A carrier \in ManifestCarriers :
      ReportedAs(carrier) \in Range(k_result.unapproved)
        <=> ~\E approved \in Range(k_approved) : Lower(approved) = Lower(carrier)

(***************************************************************************)
(* Properties of the mapping suggestions.                                  *)
(***************************************************************************)
\* the scores the rules give a column name against a variant: 1.0 for the
\* exact name, 0.8 when the variant is part of the name, 0.6 when a word of the
\* variant is, 0.4 when the name is part of the variant
RuleScores(name, variant) ==
  {0} \cup (IF name = variant THEN {10} ELSE {})
      \cup (IF Contains(name, variant) THEN {8} ELSE {})
      \cup (IF \E w \in Range(Words(variant)) : Contains(name, w) THEN {6} ELSE {})
      \cup (IF Contains(variant, name) THEN {4} ELSE {})

\* the best score of a column over the variants of a field
BestScore(col, field) ==
  LET all == UNION {RuleScores(Lower(col), STANDARD_COLUMNS[field][k]) :
                      k \in DOMAIN STANDARD_COLUMNS[field]}
  IN CHOOSE x \in all : \A y \in all : y <= x

\* C19: generate_mapping_suggestions returns suggestions only for the
\* currently unmapped standard fields, at most 3 columns per field in order of
\* non-increasing score, each with the best score of the column over the
\* variants of the field, and never a column that scores 0.
C19_MappingSuggestions ==
  m_pc = "suggested" =>
    /\ DOMAIN m_suggestions = {f \in Fields : m_mapping[f] = None}
    /\ \A f \in DOMAIN m_suggestions :
         LET listed == m_suggestions[f]
         IN /\ Len(listed) <= 3
            /\ \A k \in DOMAIN listed :
                 /\ listed[k].column \in Range(m_cols)
                 /\ listed[k].score = BestScore(listed[k].column, f)
                 /\ listed[k].score > 0
            /\ \A k, l \in DOMAIN listed : k < l => listed[k].score >= listed[l].score

\* four columns score for the unmapped carrier field, 0.4, 0.6, 0.8 and 0.8 in
\* the order of the header, and the three best are suggested, the best first
C19_Witness ==
  /\ m_pc = "suggested"
  /\ m_cols = <<<<"S","h","i","p">>, <<"N","a","m","e">>, <<"C","a","r","r","i","e","r","N","a","m","e">>, <<"C","a","r","r","i","e","r","-","N","a","m","e">>>>
  /\ "carrier" \in DOMAIN m_suggestions
  /\ m_suggestions["carrier"] =
       <<[column |-> <<"C","a","r","r","i","e","r","N","a","m","e">>, score |-> 8], [column |-> <<"C","a","r","r","i","e","r","-","N","a","m","e">>, score |-> 8],
         [column |-> <<"N","a","m","e">>, score |-> 6]>>

(***************************************************************************)
(* Properties of the cleaner's conversions (specification SpecClean).      *)
(***************************************************************************)
TextFields == {"carrier", "status", "origin", "destination"}
NumberFields == {"weight", "cost"}
DateFields == {"date", "delivery_date"}

\* the mapping the call of the cleaner works with
CleanMapping ==
  IF c_default THEN detect_column_mapping(c_df.columns) ELSE c_mapping

\* some field of the set is mapped to the column name
NamedBy(fields, name) ==
  \E f \in fields : Truthy(Get(CleanMapping, f)) /\ Get(CleanMapping, f) = name

\* the part of the mapping that names columns of text
TextOnly ==
  [f \in (DOMAIN CleanMapping) \cap TextFields |-> CleanMapping[f]]

\* every column a number or date field is mapped to is one column of the table
ConvertedColumnsPresent ==
  \A f \in NumberFields \cup DateFields :
    Truthy(Get(CleanMapping, f)) =>
      Cardinality(Positions(c_df, Get(CleanMapping, f))) = 1

\* the cell a value becomes in a column mapped to weight or cost
AsNumber(x) ==
  IF x.t = "str"
  THEN (IF ParseNumber(x.v) >= 0 THEN Num(ParseNumber(x.v)) ELSE NaN)
  ELSE x

\* the cell a value becomes in a column mapped to date or delivery_date
AsDate(x) ==
  IF x.t = "str" THEN (IF IsIsoDate(Strip(x.v)) THEN Date(Strip(x.v)) ELSE NaT)
  ELSE IF x.t = "num" THEN Epoch(x.v \div 100)
  ELSE NaT

ValidJson(file) == file.exists /\ file.decodable /\ loads(file.text).ok

\* C22: a load that follows save(L) with the file untouched in between
\* returns L, and a load that finds no file, or a file that holds no valid
\* JSON, returns the empty list and raises nothing.
C22_SaveLoadRoundTrip ==
  l_pc = "loaded" =>
    /\ l_fresh => l_result = LoadReturns(JsonList(l_carriers))
    /\ ~ValidJson(l_file) => l_result = LoadReturns(JsonList(<<>>))

\* the same with the files limited to text in the encoding of open()
RoundTripOfText ==
  (l_pc = "loaded" /\ l_file.decodable) =>
    /\ l_fresh => l_result = LoadReturns(JsonList(l_carriers))
    /\ ~ValidJson(l_file) => l_result = LoadReturns(JsonList(<<>>))

(***************************************************************************)
(* Properties of the alert message (specification SpecAlert).              *)
(***************************************************************************)
\* C23: the message rendered for n >= 1 delayed shipments with the keys
\* shipment_id, status, eta and action states the count n, writes
\* 'shipments' when n > 1 and 'shipment' when n = 1, and contains the
\* shipment_id of every shipment.
C23_AlertNamesEveryShipment ==
  (f_pc = "rendered" /\ Len(f_shipments) >= 1) =>
    \E n \in {Len(f_shipments)} :
      /\ Contains(f_message, NatText(n) \o <<" ","s","h","i","p","m","e","n","t">>)
      /\ Contains(f_message, <<" ","s","h","i","p","m","e","n","t","s"," ","c","u","r","r","e","n","t","l","y">>) <=> n > 1
      /\ Contains(f_message, <<" ","s","h","i","p","m","e","n","t"," ","c","u","r","r","e","n","t","l","y">>) <=> n = 1
      /\ \A i \in 1..n : Contains(f_message, f_shipments[i]["shipment_id"])

\* the same of the format_multi_shipment_alert of utils/formatters.py alone
FormattersNamesEveryShipment ==
  f_site = "formatters" => C23_AlertNamesEveryShipment

(***************************************************************************)
(* Properties of the LLM path of a session (specification Spec).           *)
(***************************************************************************)
\* C24: every call of answer_question analyses the table that is loaded in
\* the session when the call is made, also when another file was uploaded
\* after an earlier call.
C24_LlmAnalysesSessionTable ==
  [][llm_log' # llm_log => Last(llm_log').table = s_df']_vars

\* the first call of answer_question of a session analyses the session table
FirstLlmCallOnSessionTable ==
  [][(llm_log = <<>> /\ llm_log' # <<>>) => Last(llm_log').table = s_df']_vars

(***************************************************************************)
(* Properties of Apply Column Mapping and of the upload (specification     *)
(* SpecHeaders).                                                           *)
(***************************************************************************)
\* C25: Apply Column Mapping with a non-empty user mapping whose values are
\* columns of the current table raises no error, and the run stores the
\* renamed and cleaned table as the session table and the user mapping as
\* the session column mapping.
C25_ApplyMappingCompletes ==
  [][/\ apply_notice' # "error"
     /\ apply_notice' = "success" =>
          \E current_df \in {UploadBlock(uploaded_file, Loaded).df} :
            \E user_mapping \in UserMappings(current_df) \ {EmptyMapping} :
              /\ s_column_mapping' = user_mapping
              /\ s_df' = clean_column_data(apply_column_mapping(current_df, user_mapping),
                                           user_mapping).df]_vars

\* a run of Apply Column Mapping that completes stores the table and the
\* mapping as C25 states
ApplyMappingStoresWhenComplete ==
  [][apply_notice' = "success" =>
       \E current_df \in {UploadBlock(uploaded_file, Loaded).df} :
         \E user_mapping \in UserMappings(current_df) \ {EmptyMapping} :
           /\ s_column_mapping' = user_mapping
           /\ s_df' = clean_column_data(apply_column_mapping(current_df, user_mapping),
                                        user_mapping).df]_vars

\* C29: after every successful upload the column names of the session table
\* are pairwise distinct.
C29_SessionColumnsDistinct ==
  upload_notice = "success" =>
    \A i, j \in 1..Len(s_df.columns) : s_df.columns[i] = s_df.columns[j] => i = j

(***************************************************************************)
(* Properties of the detected mapping (specification SpecResolve).         *)
(***************************************************************************)
\* C26: the mapping detect_column_mapping returns for a list of column names
\* never gives two standard fields the same column, and every value that is
\* not absent is one of the names of the list; no two fields share a variant,
\* which is why this holds whatever the list.
C26_DetectedMappingInjective ==
  r_pc = "mapped" =>
    /\ \A f, g \in Fields :
         (f # g /\ r_mapping[f] # None) => r_mapping[f] # r_mapping[g]
    /\ \A f \in Fields : r_mapping[f] # None => r_mapping[f] \in Range(r_cols)
    /\ \A f, g \in Fields :
         f # g => Range(STANDARD_COLUMNS[f]) \cap Range(STANDARD_COLUMNS[g]) = {}

\* the resolver has run on a header row of three columns and mapped three
\* fields, each to its own column
C26_Witness ==
  /\ r_pc = "mapped"
  /\ r_cols = <<<<"O","r","i","g","i","n">>, <<"C","A","R","R","I","E","R">>, <<"S","h","i","p"," ","D","a","t","e">>>>
  /\ r_mapping["origin"] = <<"O","r","i","g","i","n">>
  /\ r_mapping["carrier"] = <<"C","A","R","R","I","E","R">>
  /\ r_mapping["date"] = <<"S","h","i","p"," ","D","a","t","e">>
  /\ r_mapping["delivery_date"] = None

-----------------------------------------------------------------------------
\* Properties of the column search of the batch (specification SpecGeo)

\* a coordinate column: its lowercase name contains 'lat' or 'lon'
IsCoordinateName(col) == Contains(Lower(col), <<"l","a","t">>) \/ Contains(Lower(col), <<"l","o","n">>)

\* C27: add_geographic_coordinates geocodes city names only: once it has
\* begun, neither the origin column nor the destination column it selected is
\* a coordinate column, and every city it geocodes is the text of a cell of
\* the table, also on a table that already has the four coordinate columns
C27_GeocodesCityColumns ==
  (g_mode = "utils" /\ g_pc \notin {"input", "idle"}) =>
    \E found \in {FindColumns("utils", g_df.columns)} :
      /\ \A col \in {found.origin_col, found.dest_col} :
           Truthy(col) => ~IsCoordinateName(col)
      /\ \A city \in g_cities :
           \E i \in 1..Len(g_df.data) : Str(city) \in Range(g_df.data[i].values)
-----------------------------------------------------------------------------
\* Properties of the delayed counts (specification SpecDelayed)

\* what the four places have reported so far
DelayedReports == {d_dashboard, d_metrics, d_direct, d_alert}

\* C28: the number of delayed shipments is the same wherever the app reports
\* it: the Dashboard metric, the key-metrics helper, the direct answer of the
\* AI tab and the Shipment Alerts tab count the same set of rows as delayed.
C28_DelayedCountsAgree ==
  \A a, b \in DelayedReports :
    (a.kind = "count" /\ b.kind = "count") => a.rows = b.rows

\* the three places that look for 'delay' in the column named status agree
DelayWordCountsAgree ==
  \A a, b \in {d_metrics, d_direct, d_alert} :
    (a.kind = "count" /\ b.kind = "count") => a.rows = b.rows
-----------------------------------------------------------------------------
\* Properties of the approved-carrier list (specification SpecCarriers)

\* a list in ascending order without duplicates
StrictlyAscending(names) ==
  \A i \in 1..(Len(names) - 1) : StrLess(names[i], names[i + 1])

NoBlankName(names) == \A i \in 1..Len(names) : Strip(names[i]) # <<>>

\* C30: after every action that changes the approved-carrier list (Save
\* Carriers, Reset to Default, Add to Approved List, Save Approved Carriers
\* List) the list in session state is sorted in ascending order and has no
\* duplicate and no blank name.
C30_ApprovedListSortedDistinctNonBlank ==
  a_pc \notin {"start", "idle"} =>
    StrictlyAscending(a_approved) /\ NoBlankName(a_approved)

\* after the two buttons that save what the user typed the list is sorted
\* without duplicates and without blank names
TypedListsSortedDistinctNonBlank ==
  a_pc \in {"Save Carriers", "Save Approved Carriers List"} =>
    StrictlyAscending(a_approved) /\ NoBlankName(a_approved)

\* every action leaves in the carrier file the list it leaves in the session
CarrierFileHoldsList ==
  a_pc \notin {"start", "idle"} => load_approved_carriers(a_file) = LoadReturns(JsonList(a_approved))
====
